---- MODULE Spec2Model ----
(***************************************************************************)
(* Buffer pool manager (BufMgr, clock replacement) and heap file layer of  *)
(* the Minirel storage core, as state machines.                            *)
(***************************************************************************)
EXTENDS Integers, Sequences, FiniteSets, TLC

(***************************************************************************)
(* Bounds                                                                  *)
(***************************************************************************)
\* number of frames handed to the BufMgr constructor
NumBufs == 2
\* cap on the pin count a client builds up on one page
MaxPin == 2
\* page numbers a file of the provider can hold: 1..MaxPageNo
MaxPageNo == 2

\* units of record space on a data page, PAGESIZE - DPFIXED; a record takes
\* length of them
PageCap == 2

\* frames of the pool the heap files run on
HeapBufs == 3

\* pages the heap file can grow to, header page included
MaxHeapPages == 4

\* the values of an int: IntMin .. IntMax
IntMax == 127
IntMin == -IntMax - 1

\* the bytes of a STRING field are 0 .. ByteMax
ByteMax == 2

\* File* values of the open files; NullFile is the NULL pointer
Files == {1, 2}
NullFile == 0

PageNos == 1 .. MaxPageNo

\* the frame numbers of a pool
Frames(bm) == 0 .. (bm.numBufs - 1)

(***************************************************************************)
(* BufDesc (buf.h): Clear and Set                                          *)
(***************************************************************************)
Clear ==
    [file |-> NullFile, pageNo |-> -1, pinCnt |-> 0,
     dirty |-> FALSE, refbit |-> FALSE, valid |-> FALSE]

\* Set that leaves the reference bit clear
Set_noRefbit(file, pageNo) ==
    [file |-> file, pageNo |-> pageNo, pinCnt |-> 1,
     dirty |-> FALSE, refbit |-> FALSE, valid |-> TRUE]

Set(file, pageNo) ==
    [file |-> file, pageNo |-> pageNo, pinCnt |-> 1,
     dirty |-> FALSE, refbit |-> TRUE, valid |-> TRUE]

(***************************************************************************)
(* BufHashTbl: a set of (file, pageNo, frameNo) entries                    *)
(***************************************************************************)
HashEntries(ht, file, pageNo) ==
    {e \in ht : e.file = file /\ e.pageNo = pageNo}

\* lookup leaves the caller's frameNo alone on a miss
lookup(ht, file, pageNo, frameNo) ==
    IF HashEntries(ht, file, pageNo) = {}
    THEN [status |-> "HASHNOTFOUND", frameNo |-> frameNo]
    ELSE [status |-> "OK",
          frameNo |-> (CHOOSE e \in HashEntries(ht, file, pageNo) : TRUE).frameNo]

insert(ht, file, pageNo, frameNo) ==
    IF HashEntries(ht, file, pageNo) # {}
    THEN [status |-> "HASHTBLERROR", ht |-> ht]
    ELSE [status |-> "OK",
          ht |-> ht \cup {[file |-> file, pageNo |-> pageNo, frameNo |-> frameNo]}]

remove(ht, file, pageNo) ==
    IF HashEntries(ht, file, pageNo) = {}
    THEN [status |-> "HASHTBLERROR", ht |-> ht]
    ELSE [status |-> "OK", ht |-> ht \ HashEntries(ht, file, pageNo)]

\* the slots of a data page
Slots == 0 .. (PageCap - 1)

\* a Record is (data, length); NoRec is what an unused slot holds
NoRec == [data |-> 0, length |-> 0]

\* a page whose bytes are all zero, read as a FileHdrPage or as a Page
ZeroPage ==
    [pageCnt |-> 0, recCnt |-> 0, firstPage |-> 0, lastPage |-> 0,
     slot |-> [s \in Slots |-> NoRec], nextPage |-> 0, curPage |-> 0]

(***************************************************************************)
(* File provider.  What the operating system answers is an input of the    *)
(* call: ok for a read or a write, the new page number for allocatePage    *)
(* (-1 when the file cannot grow).                                         *)
(***************************************************************************)
File_allocatePage(bm, file, newPageNo) ==
    IF newPageNo >= 0
    THEN [status |-> "OK", pageNo |-> newPageNo,
          bm |-> IF <<file, newPageNo>> \in DOMAIN bm.disk
                 THEN bm
                 ELSE [bm EXCEPT !.disk = @ @@ (<<file, newPageNo>> :> ZeroPage)]]
    ELSE [status |-> "UNIXERR", pageNo |-> -1, bm |-> bm]

File_readPage(bm, file, pageNo, frame, ok) ==
    IF <<file, pageNo>> \notin DOMAIN bm.disk
    THEN [status |-> "BADPAGENO", bm |-> bm]
    ELSE IF ok
    THEN [status |-> "OK",
          bm |-> [bm EXCEPT !.bufPool[frame] = bm.disk[<<file, pageNo>>]]]
    ELSE [status |-> "UNIXERR", bm |-> bm]

File_writePage(bm, file, pageNo, frame, ok) ==
    IF ok
    THEN [status |-> "OK",
          bm |-> [bm EXCEPT !.disk[<<file, pageNo>>] = bm.bufPool[frame]]]
    ELSE [status |-> "UNIXERR", bm |-> bm]

File_disposePage(bm, file, pageNo) == [status |-> "OK", bm |-> bm]

WriteEvent(bm, frame) ==
    [file |-> bm.bufTable[frame].file, pageNo |-> bm.bufTable[frame].pageNo,
     data |-> bm.bufPool[frame]]

(***************************************************************************)
(* BufMgr                                                                  *)
(***************************************************************************)
\* the pool after BufMgr::BufMgr(bufs): descriptors zeroed and invalid
BufMgr(bufs) ==
    [numBufs   |-> bufs,
     bufTable  |-> [i \in 0 .. (bufs - 1) |->
                      [file |-> NullFile, pageNo |-> 0, pinCnt |-> 0,
                       dirty |-> FALSE, refbit |-> FALSE, valid |-> FALSE]],
     bufPool   |-> [i \in 0 .. (bufs - 1) |-> ZeroPage],
     hashTable |-> {},
     clockHand |-> bufs - 1]

\* a provider holding the pages pgs
Provider(pgs) == [disk |-> [pg \in pgs |-> ZeroPage]]

advanceClock(bm) == [bm EXCEPT !.clockHand = (bm.clockHand + 1) % bm.numBufs]

NoVictim ==
    [file |-> NullFile, pageNo |-> -1, pinCnt |-> 0,
     dirty |-> FALSE, refbit |-> FALSE, valid |-> FALSE]

\* a single sweep of the clock
AllocBufSteps_oneSweep(bm) == bm.numBufs

\* the bound of the for loop of allocBuf
AllocBufSteps(bm) == bm.numBufs * 2

\* the pin count is not looked at
Evictable_any(tmpbuf) == TRUE

\* else if (tmpbuf->pinCnt == 0): the frame may be taken
Evictable(tmpbuf) == tmpbuf.pinCnt = 0

\* the victim is taken without being written
VictimNeedsWrite_never(tmpbuf) == FALSE

\* every victim is written, the clean one too
VictimNeedsWrite_always(tmpbuf) == TRUE

\* if (tmpbuf->dirty): the victim is written before it is taken
VictimNeedsWrite(tmpbuf) == tmpbuf.dirty

\* one iteration of the for loop of allocBuf, i counts the iterations done
RECURSIVE allocBufLoop(_, _, _, _)
allocBufLoop(bm, frame, i, writeOk) ==
    IF i >= AllocBufSteps(bm)
    THEN [status |-> "BUFFEREXCEEDED", frame |-> frame, bm |-> bm,
          steps |-> i, victim |-> NoVictim, writes |-> {}]
    ELSE LET tmpbuf == bm.bufTable[bm.clockHand] IN
         IF ~tmpbuf.valid
         THEN [status |-> "OK", frame |-> bm.clockHand,
               bm |-> advanceClock(bm),
               steps |-> i + 1, victim |-> NoVictim, writes |-> {}]
         ELSE IF tmpbuf.refbit
         THEN allocBufLoop(
                  advanceClock([bm EXCEPT !.bufTable[bm.clockHand].refbit = FALSE]),
                  frame, i + 1, writeOk)
         ELSE IF Evictable(tmpbuf)
         THEN LET wr == IF VictimNeedsWrite(tmpbuf)
                        THEN File_writePage(bm, tmpbuf.file, tmpbuf.pageNo,
                                            bm.clockHand, writeOk)
                        ELSE [status |-> "OK", bm |-> bm]
                  rm == remove(wr.bm.hashTable, tmpbuf.file, tmpbuf.pageNo)
                  wrote == IF VictimNeedsWrite(tmpbuf) /\ wr.status = "OK"
                           THEN {WriteEvent(bm, bm.clockHand)} ELSE {}
              IN IF wr.status # "OK"
                 THEN [status |-> "UNIXERR", frame |-> frame, bm |-> bm,
                       steps |-> i + 1, victim |-> NoVictim, writes |-> {}]
                 ELSE IF rm.status # "OK"
                 THEN [status |-> "HASHTBLERROR", frame |-> frame, bm |-> wr.bm,
                       steps |-> i + 1, victim |-> NoVictim, writes |-> wrote]
                 ELSE [status |-> "OK", frame |-> bm.clockHand,
                       bm |-> [wr.bm EXCEPT !.hashTable = rm.ht,
                                            !.bufTable[bm.clockHand] = Clear],
                       steps |-> i + 1, victim |-> tmpbuf, writes |-> wrote]
         ELSE allocBufLoop(advanceClock(bm), frame, i + 1, writeOk)

\* allocBuf that clears the descriptor of the victim it could not write
allocBuf_clearsOnError(bm, frame, writeOk) ==
    IF allocBufLoop(bm, frame, 0, writeOk).status = "UNIXERR"
    THEN [allocBufLoop(bm, frame, 0, writeOk) EXCEPT
             !.bm.bufTable[allocBufLoop(bm, frame, 0, writeOk).bm.clockHand] = Clear]
    ELSE allocBufLoop(bm, frame, 0, writeOk)

\* frame is the caller's variable, passed by reference and set on success only
allocBuf(bm, frame, writeOk) == allocBufLoop(bm, frame, 0, writeOk)

\* oob: the call went on with frameNo = -1 and touched bufPool[-1], bufTable[-1]
readPage(bm, file, PageNo, readOk, writeOk) ==
    LET lk == lookup(bm.hashTable, file, PageNo, -1) IN
    IF lk.status = "HASHNOTFOUND"
    THEN LET ab == allocBuf(bm, lk.frameNo, writeOk)
             inPool == ab.frame \in Frames(bm)
             rd == IF inPool
                   THEN File_readPage(ab.bm, file, PageNo, ab.frame, readOk)
                   ELSE [status |-> IF readOk THEN "OK" ELSE "UNIXERR", bm |-> ab.bm]
             ins == insert(rd.bm.hashTable, file, PageNo, ab.frame)
         IN IF ab.status = "BUFFEREXCEEDED"
            THEN [status |-> ab.status, frame |-> -1, bm |-> ab.bm, hit |-> FALSE,
                  oob |-> FALSE, alloc |-> ab]
            ELSE IF rd.status # "OK"
            THEN [status |-> "UNIXERR", frame |-> -1, bm |-> rd.bm, hit |-> FALSE,
                  oob |-> FALSE, alloc |-> ab]
            ELSE IF ins.status # "OK"
            THEN [status |-> "HASHTBLERROR", frame |-> -1,
                  bm |-> [rd.bm EXCEPT !.hashTable = ins.ht], hit |-> FALSE,
                  oob |-> ~inPool, alloc |-> ab]
            ELSE [status |-> "OK", frame |-> ab.frame,
                  bm |-> IF inPool
                         THEN [rd.bm EXCEPT !.hashTable = ins.ht,
                                            !.bufTable[ab.frame] = Set(file, PageNo)]
                         ELSE [rd.bm EXCEPT !.hashTable = ins.ht],
                  hit |-> FALSE, oob |-> ~inPool, alloc |-> ab]
    ELSE [status |-> "OK", frame |-> lk.frameNo,
          bm |-> [bm EXCEPT !.bufTable[lk.frameNo].refbit = TRUE,
                            !.bufTable[lk.frameNo].pinCnt = @ + 1],
          hit |-> TRUE, oob |-> FALSE,
          alloc |-> [status |-> "OK", frame |-> lk.frameNo, bm |-> bm, steps |-> 0,
                     victim |-> NoVictim, writes |-> {}]]

\* unPinPage without the test of pinCnt == 0
unPinPage_noPinCheck(bm, file, PageNo, dirty) ==
    LET lk == lookup(bm.hashTable, file, PageNo, -1) IN
    IF lk.status = "HASHNOTFOUND"
    THEN [status |-> "HASHNOTFOUND", bm |-> bm]
    ELSE [status |-> "OK",
          bm |-> [bm EXCEPT !.bufTable[lk.frameNo].pinCnt = @ - 1,
                            !.bufTable[lk.frameNo].dirty = (@ \/ dirty)]]

\* unPinPage with dirty = dirty in place of dirty |= dirty
unPinPage_assignDirty(bm, file, PageNo, dirty) ==
    LET lk == lookup(bm.hashTable, file, PageNo, -1) IN
    IF lk.status = "HASHNOTFOUND"
    THEN [status |-> "HASHNOTFOUND", bm |-> bm]
    ELSE IF bm.bufTable[lk.frameNo].pinCnt = 0
    THEN [status |-> "PAGENOTPINNED", bm |-> bm]
    ELSE [status |-> "OK",
          bm |-> [bm EXCEPT !.bufTable[lk.frameNo].pinCnt = @ - 1,
                            !.bufTable[lk.frameNo].dirty = dirty]]

unPinPage(bm, file, PageNo, dirty) ==
    LET lk == lookup(bm.hashTable, file, PageNo, -1) IN
    IF lk.status = "HASHNOTFOUND"
    THEN [status |-> "HASHNOTFOUND", bm |-> bm]
    ELSE IF bm.bufTable[lk.frameNo].pinCnt = 0
    THEN [status |-> "PAGENOTPINNED", bm |-> bm]
    ELSE [status |-> "OK",
          bm |-> [bm EXCEPT !.bufTable[lk.frameNo].pinCnt = @ - 1,
                            !.bufTable[lk.frameNo].dirty = (@ \/ dirty)]]

allocPage(bm, file, newPageNo, writeOk) ==
    LET ap == File_allocatePage(bm, file, newPageNo)
        ab == allocBuf(ap.bm, -1, writeOk)
        ins == insert(ab.bm.hashTable, file, ap.pageNo, ab.frame)
    IN IF ap.status # "OK"
       THEN [status |-> ap.status, pageNo |-> -1, frame |-> -1, bm |-> bm,
             alloc |-> [status |-> "OK", frame |-> -1, bm |-> bm, steps |-> 0,
                        victim |-> NoVictim, writes |-> {}]]
       ELSE IF ab.status # "OK"
       THEN [status |-> ab.status, pageNo |-> ap.pageNo, frame |-> -1, bm |-> ab.bm,
             alloc |-> ab]
       ELSE IF ins.status # "OK"
       THEN [status |-> ins.status, pageNo |-> ap.pageNo, frame |-> -1, bm |-> ab.bm,
             alloc |-> ab]
       ELSE [status |-> "OK", pageNo |-> ap.pageNo, frame |-> ab.frame,
             bm |-> [ab.bm EXCEPT !.hashTable = ins.ht,
                                  !.bufTable[ab.frame] = Set(file, ap.pageNo)],
             alloc |-> ab]

disposePage(bm, file, pageNo) ==
    LET lk == lookup(bm.hashTable, file, pageNo, 0)
        cl == IF lk.status = "OK"
              THEN [bm EXCEPT !.bufTable[lk.frameNo] = Clear]
              ELSE bm
        rm == remove(cl.hashTable, file, pageNo)
        dp == File_disposePage([cl EXCEPT !.hashTable = rm.ht], file, pageNo)
    IN [status |-> dp.status, bm |-> dp.bm]

\* flushFile that does not stop at a pinned frame
FlushStopsAt_never(tmpbuf) == FALSE

\* if (tmpbuf->pinCnt > 0) return PAGEPINNED
FlushStopsAt(tmpbuf) == tmpbuf.pinCnt > 0

\* bad: the frames whose write the operating system fails
RECURSIVE flushFileLoop(_, _, _, _, _)
flushFileLoop(bm, file, i, bad, writes) ==
    IF i >= bm.numBufs
    THEN [status |-> "OK", bm |-> bm, writes |-> writes]
    ELSE LET tmpbuf == bm.bufTable[i] IN
         IF tmpbuf.valid /\ tmpbuf.file = file
         THEN IF FlushStopsAt(tmpbuf)
              THEN [status |-> "PAGEPINNED", bm |-> bm, writes |-> writes]
              ELSE LET wr == IF tmpbuf.dirty
                             THEN File_writePage(bm, tmpbuf.file, tmpbuf.pageNo, i,
                                                 i \notin bad)
                             ELSE [status |-> "OK", bm |-> bm]
                       rm == remove(wr.bm.hashTable, file, tmpbuf.pageNo)
                   IN IF wr.status # "OK"
                      THEN [status |-> wr.status, bm |-> bm, writes |-> writes]
                      ELSE flushFileLoop(
                               [wr.bm EXCEPT !.hashTable = rm.ht,
                                             !.bufTable[i].dirty = FALSE,
                                             !.bufTable[i].file = NullFile,
                                             !.bufTable[i].pageNo = -1,
                                             !.bufTable[i].valid = FALSE],
                               file, i + 1, bad,
                               IF tmpbuf.dirty THEN writes \cup {WriteEvent(bm, i)}
                               ELSE writes)
         ELSE IF ~tmpbuf.valid /\ tmpbuf.file = file
         THEN [status |-> "BADBUFFER", bm |-> bm, writes |-> writes]
         ELSE flushFileLoop(bm, file, i + 1, bad, writes)

flushFile(bm, file, bad) == flushFileLoop(bm, file, 0, bad, {})

\* ~BufMgr: every valid dirty frame is handed to writePage, errors are ignored
RECURSIVE BufMgrDtorLoop(_, _, _, _)
BufMgrDtorLoop(bm, i, bad, writes) ==
    IF i >= bm.numBufs
    THEN [bm |-> bm, writes |-> writes]
    ELSE LET tmpbuf == bm.bufTable[i] IN
         IF tmpbuf.valid /\ tmpbuf.dirty
         THEN BufMgrDtorLoop(
                  File_writePage(bm, tmpbuf.file, tmpbuf.pageNo, i, i \notin bad).bm,
                  i + 1, bad, writes \cup {WriteEvent(bm, i)})
         ELSE BufMgrDtorLoop(bm, i + 1, bad, writes)

BufMgrDtor(bm, bad) == BufMgrDtorLoop(bm, 0, bad, {})

(***************************************************************************)
(* The buffer pool under an arbitrary client                               *)
(***************************************************************************)
VARIABLES
    numBufs,
    bufTable,   \* BufDesc per frame
    bufPool,    \* Page per frame
    hashTable,  \* BufHashTbl
    clockHand,
    disk,       \* provider: contents of every page
    alive,      \* FALSE once ~BufMgr has run
    fault,      \* "none", or how an out-of-bounds access ended the run
    last,       \* the last call: its arguments, its status and the pages it wrote
    heap        \* the heap file objects that are open, see below

vars == <<numBufs, bufTable, bufPool, hashTable, clockHand, disk, alive,
          fault, last, heap>>

Pool ==
    [numBufs |-> numBufs, bufTable |-> bufTable, bufPool |-> bufPool, hashTable |-> hashTable,
     clockHand |-> clockHand, disk |-> disk]

Install(bm) ==
    /\ numBufs' = bm.numBufs
    /\ bufTable' = bm.bufTable
    /\ bufPool' = bm.bufPool
    /\ hashTable' = bm.hashTable
    /\ clockHand' = bm.clockHand
    /\ disk' = bm.disk

Start(bm) ==
    /\ numBufs = bm.numBufs
    /\ bufTable = bm.bufTable
    /\ bufPool = bm.bufPool
    /\ hashTable = bm.hashTable
    /\ clockHand = bm.clockHand
    /\ disk = bm.disk

Call(op, file, pageNo, dirty, status, writes) ==
    [op |-> op, file |-> file, pageNo |-> pageNo, dirty |-> dirty,
     status |-> status, writes |-> writes]

\* the frames a write can fail on
DirtyFrames(bm) == {i \in Frames(bm) : bm.bufTable[i].valid /\ bm.bufTable[i].dirty}

Running == alive /\ fault = "none"

Init ==
    /\ Start(BufMgr(NumBufs) @@ Provider(Files \X PageNos))
    /\ alive = TRUE
    /\ fault = "none"
    /\ last = Call("BufMgr", NullFile, -1, FALSE, "OK", {})
    /\ heap = <<>>

\* readPage; a hit is taken only while the page's pin count is below MaxPin
ReadPage(file, PageNo, readOk, writeOk) ==
    /\ Running
    /\ LET r == readPage(Pool, file, PageNo, readOk, writeOk) IN
       /\ r.hit => bufTable[r.frame].pinCnt < MaxPin
       /\ \/ /\ Install(r.bm)
             /\ fault' = IF r.oob THEN "oob" ELSE "none"
             /\ last' = Call("readPage", file, PageNo, FALSE, r.status, r.alloc.writes)
          \/ /\ r.oob
             /\ fault' = "crash"
             /\ UNCHANGED <<numBufs, bufTable, bufPool, hashTable, clockHand, disk,
                            last>>
    /\ UNCHANGED <<alive, heap>>

UnPinPage(file, PageNo, dirty) ==
    /\ Running
    /\ LET r == unPinPage(Pool, file, PageNo, dirty) IN
       /\ Install(r.bm)
       /\ last' = Call("unPinPage", file, PageNo, dirty, r.status, {})
    /\ UNCHANGED <<alive, fault, heap>>

\* the provider hands out -1 (no page) or a page that is not in the pool
AllocPage(file, newPageNo, writeOk) ==
    /\ Running
    /\ HashEntries(hashTable, file, newPageNo) = {}
    /\ LET r == allocPage(Pool, file, newPageNo, writeOk) IN
       /\ Install(r.bm)
       /\ last' = Call("allocPage", file, r.pageNo, FALSE, r.status, r.alloc.writes)
    /\ UNCHANGED <<alive, fault, heap>>

DisposePage(file, pageNo) ==
    /\ Running
    /\ LET r == disposePage(Pool, file, pageNo) IN
       /\ Install(r.bm)
       /\ last' = Call("disposePage", file, pageNo, FALSE, r.status, {})
    /\ UNCHANGED <<alive, fault, heap>>

FlushFile(file, bad) ==
    /\ Running
    /\ LET r == flushFile(Pool, file, bad) IN
       /\ Install(r.bm)
       /\ last' = Call("flushFile", file, -1, FALSE, r.status, r.writes)
    /\ UNCHANGED <<alive, fault, heap>>

Destroy(bad) ==
    /\ Running
    /\ LET r == BufMgrDtor(Pool, bad) IN
       /\ Install(r.bm)
       /\ last' = Call("~BufMgr", NullFile, -1, FALSE, "OK", r.writes)
    /\ alive' = FALSE
    /\ UNCHANGED <<fault, heap>>

Next ==
    \/ \E f \in Files, p \in PageNos, ok \in BOOLEAN, w \in BOOLEAN :
          ReadPage(f, p, ok, w)
    \/ \E f \in Files, p \in PageNos, d \in BOOLEAN : UnPinPage(f, p, d)
    \/ \E f \in Files, p \in PageNos \cup {-1}, w \in BOOLEAN : AllocPage(f, p, w)
    \/ \E f \in Files, p \in PageNos : DisposePage(f, p)
    \/ \E f \in Files, bad \in SUBSET DirtyFrames(Pool) : FlushFile(f, bad)
    \/ \E bad \in SUBSET DirtyFrames(Pool) : Destroy(bad)

Spec == Init /\ [][Next]_vars

(***************************************************************************)
(* Vocabulary of the buffer pool claims                                    *)
(***************************************************************************)
Holds(bm, i, file, pageNo) ==
    /\ bm.bufTable[i].valid
    /\ bm.bufTable[i].file = file
    /\ bm.bufTable[i].pageNo = pageNo

Resident(bm, file, pageNo) == \E i \in Frames(bm) : Holds(bm, i, file, pageNo)

PinCntOf(bm, file, pageNo) ==
    IF Resident(bm, file, pageNo)
    THEN bm.bufTable[CHOOSE i \in Frames(bm) : Holds(bm, i, file, pageNo)].pinCnt
    ELSE 0

AllPages == Files \X PageNos

SameIdentity(d, e) == d.valid = e.valid /\ d.file = e.file /\ d.pageNo = e.pageNo

\* C1: for every frame, valid iff the hash table has an entry for the frame's
\* (file, pageNo) and that entry names this frame; no hash entry names an invalid
\* frame or a frame number outside 0..numBufs-1.
C1_HashMatchesValid ==
    /\ \A i \in Frames(Pool) :
          bufTable[i].valid <=>
             /\ HashEntries(hashTable, bufTable[i].file, bufTable[i].pageNo) # {}
             /\ \A e \in HashEntries(hashTable, bufTable[i].file, bufTable[i].pageNo) :
                   e.frameNo = i
    /\ \A e \in hashTable :
          /\ e.frameNo \in Frames(Pool)
          /\ bufTable[e.frameNo].valid

\* C2: a frame allocBuf takes from a valid page had pinCnt = 0 and refbit = FALSE
\* when it was chosen, and no frame with pinCnt > 0 changes its file, pageNo or
\* valid in a readPage or an allocPage.
EvictionSafe(bm, r) ==
    /\ r.alloc.victim.valid =>
          r.alloc.victim.pinCnt = 0 /\ ~r.alloc.victim.refbit
    /\ \A i \in Frames(bm) :
          bm.bufTable[i].valid /\ bm.bufTable[i].pinCnt > 0 =>
             SameIdentity(r.bm.bufTable[i], bm.bufTable[i])

C2_EvictionSafety ==
    Running =>
       /\ \A f \in Files, p \in PageNos, ok \in BOOLEAN, w \in BOOLEAN :
             EvictionSafe(Pool, readPage(Pool, f, p, ok, w))
       /\ \A f \in Files, p \in PageNos, w \in BOOLEAN :
             ~Resident(Pool, f, p) => EvictionSafe(Pool, allocPage(Pool, f, p, w))

C2_Witness ==
    /\ last.op \in {"readPage", "allocPage"}
    /\ last.status = "OK"
    /\ last.writes # {}
    /\ \E i \in Frames(Pool) : bufTable[i].valid /\ bufTable[i].pinCnt = MaxPin

\* what a call adds to the pin count of page pg: the pin count after it minus before
PinDelta(bm, after, pg) == PinCntOf(after, pg[1], pg[2]) - PinCntOf(bm, pg[1], pg[2])

PinsNonNegative == \A i \in Frames(Pool) : bufTable[i].pinCnt >= 0

\* a readPage or allocPage of page (f, p): +1 on that page when it succeeds
PinsAfterPin(bm, r, f, p, counted) ==
    \A pg \in AllPages :
       PinDelta(bm, r.bm, pg) = IF counted /\ pg = <<f, p>> THEN 1 ELSE 0

PinsAfterUnpin(bm, r, f, p) ==
    \A pg \in AllPages :
       PinDelta(bm, r.bm, pg) = IF r.status = "OK" /\ pg = <<f, p>> THEN -1 ELSE 0

PinsUntouched(bm, after, pgs) == \A pg \in pgs : PinDelta(bm, after, pg) = 0

\* C3: every call changes the pin count of every page by exactly +1 for a
\* successful readPage/allocPage of it, -1 for a successful unPinPage of it and 0
\* otherwise, so that pinCnt = successful pins minus successful unpins, and pinCnt
\* is never negative. Disposal is taken under the caller discipline the buffer
\* manager asks for: only the disposal of a page nobody pins is constrained.
C3_PinBalance ==
    Running =>
       /\ PinsNonNegative
       /\ \A f \in Files, p \in PageNos, ok \in BOOLEAN, w \in BOOLEAN :
             LET r == readPage(Pool, f, p, ok, w)
             IN PinsAfterPin(Pool, r, f, p, r.status = "OK")
       /\ \A f \in Files, p \in PageNos, w \in BOOLEAN :
             ~Resident(Pool, f, p) =>
                LET r == allocPage(Pool, f, p, w)
                IN PinsAfterPin(Pool, r, f, p, r.status = "OK")
       /\ \A f \in Files, p \in PageNos, d \in BOOLEAN :
             PinsAfterUnpin(Pool, unPinPage(Pool, f, p, d), f, p)
       /\ \A f \in Files, p \in PageNos :
             PinCntOf(Pool, f, p) = 0 =>
                PinsUntouched(Pool, disposePage(Pool, f, p).bm, AllPages)
       /\ \A f \in Files, bad \in SUBSET DirtyFrames(Pool) :
             PinsUntouched(Pool, flushFile(Pool, f, bad).bm, AllPages)

\* frame i, dirty before the call, still holds its page dirty, or the call
\* handed the page to writePage
KeptOrWritten(bm, after, writes, i) ==
    \/ SameIdentity(after.bufTable[i], bm.bufTable[i]) /\ after.bufTable[i].dirty
    \/ WriteEvent(bm, i) \in writes

DirtySurvives(bm, after, writes) ==
    \A i \in DirtyFrames(bm) : KeptOrWritten(bm, after, writes, i)

UnpinDirtySets(bm) ==
    \A f \in Files, p \in PageNos :
       LET r == unPinPage(bm, f, p, TRUE)
       IN r.status = "OK" =>
             \E i \in Frames(bm) : Holds(r.bm, i, f, p) /\ r.bm.bufTable[i].dirty

DirtySurvivesPinsAndFlush(bm) ==
    /\ \A f \in Files, p \in PageNos, ok \in BOOLEAN, w \in BOOLEAN :
          LET r == readPage(bm, f, p, ok, w)
          IN DirtySurvives(bm, r.bm, r.alloc.writes)
    /\ \A f \in Files, p \in PageNos, w \in BOOLEAN :
          ~Resident(bm, f, p) =>
             LET r == allocPage(bm, f, p, w)
             IN DirtySurvives(bm, r.bm, r.alloc.writes)
    /\ \A f \in Files, p \in PageNos, d \in BOOLEAN :
          DirtySurvives(bm, unPinPage(bm, f, p, d).bm, {})
    /\ \A f \in Files, bad \in SUBSET DirtyFrames(bm) :
          LET r == flushFile(bm, f, bad)
          IN DirtySurvives(bm, r.bm, r.writes)
    /\ \A bad \in SUBSET DirtyFrames(bm) :
          \A i \in DirtyFrames(bm) : WriteEvent(bm, i) \in BufMgrDtor(bm, bad).writes

\* C4 as claimed: a successful unPinPage(dirty = true) sets the dirty bit, and no
\* call (readPage, allocPage, unPinPage, flushFile, disposePage, ~BufMgr) makes a
\* dirty frame lose its page or its dirty bit without handing the page to
\* writePage.
C4_DirtyPersistence ==
    Running =>
       /\ UnpinDirtySets(Pool)
       /\ DirtySurvivesPinsAndFlush(Pool)
       /\ \A f \in Files, p \in PageNos :
             DirtySurvives(Pool, disposePage(Pool, f, p).bm, {})

\* C4 amended: the same for every call but disposePage, which releases the page
\* it is given without writing it, dirty or not, and touches no other frame.
C4_DirtyPersistenceButDispose ==
    Running =>
       /\ UnpinDirtySets(Pool)
       /\ DirtySurvivesPinsAndFlush(Pool)
       /\ \A f \in Files, p \in PageNos :
             LET r == disposePage(Pool, f, p)
             IN /\ ~Resident(r.bm, f, p)
                /\ r.bm.disk = disk
                /\ \A i \in DirtyFrames(Pool) :
                      ~Holds(Pool, i, f, p) => KeptOrWritten(Pool, r.bm, {}, i)

C4_Witness ==
    /\ last.op \in {"readPage", "allocPage"}
    /\ last.status = "OK"
    /\ last.writes # {}

FramesOf(bm, file) == {i \in Frames(bm) : bm.bufTable[i].valid /\ bm.bufTable[i].file = file}

HasPinnedPage(bm, file) == \E i \in FramesOf(bm, file) : bm.bufTable[i].pinCnt > 0

\* C5: flushFile(file) while a page of the file is pinned returns PAGEPINNED,
\* leaves every frame of the file and its hash entry as they were, wherever the
\* pinned and the unpinned pages of the file sit, and writes no page (the
\* provider's writes all succeed here).
C5_FlushPinnedChangesNothing ==
    Running =>
       \A f \in Files :
          HasPinnedPage(Pool, f) =>
             LET r == flushFile(Pool, f, {})
             IN /\ r.status = "PAGEPINNED"
                /\ \A i \in FramesOf(Pool, f) : r.bm.bufTable[i] = bufTable[i]
                /\ r.bm.hashTable = hashTable
                /\ r.writes = {}

\* C6: unPinPage returns HASHNOTFOUND for a page that is not resident and
\* PAGENOTPINNED for a resident page with pinCnt = 0, changing nothing in both
\* cases; otherwise it returns OK and pinCnt is one less.
C6_UnpinErrors ==
    Running =>
       \A f \in Files, p \in PageNos, d \in BOOLEAN :
          LET r == unPinPage(Pool, f, p, d)
          IN IF ~Resident(Pool, f, p)
             THEN r.status = "HASHNOTFOUND" /\ r.bm = Pool
             ELSE IF PinCntOf(Pool, f, p) = 0
             THEN r.status = "PAGENOTPINNED" /\ r.bm = Pool
             ELSE /\ r.status = "OK"
                  /\ PinCntOf(r.bm, f, p) = PinCntOf(Pool, f, p) - 1
                  /\ Resident(r.bm, f, p)

C6_Witness ==
    /\ last.op = "unPinPage"
    /\ last.status = "PAGENOTPINNED"
    /\ Resident(Pool, last.file, last.pageNo)

\* C7: no call clears the dirty bit of a frame that keeps its page: a frame that
\* is valid and dirty before a call and valid with the same (file, pageNo) after
\* it is still dirty (unPinPage(dirty = false) and a readPage hit included).
C7_DirtyMonotone ==
    [][\A i \in 0 .. (numBufs - 1) :
          (/\ bufTable[i].valid /\ bufTable[i].dirty
           /\ bufTable'[i].valid /\ SameIdentity(bufTable'[i], bufTable[i]))
          => bufTable'[i].dirty]_vars

C7_Witness ==
    /\ last.op = "unPinPage"
    /\ last.status = "OK"
    /\ ~last.dirty
    /\ \E i \in Frames(Pool) :
          Holds(Pool, i, last.file, last.pageNo) /\ bufTable[i].dirty

AllPinned(bm) == \A i \in Frames(bm) : bm.bufTable[i].valid /\ bm.bufTable[i].pinCnt > 0

\* C8: allocBuf looks at no more than 2 * numBufs frames and, when the provider's
\* writes succeed, returns BUFFEREXCEEDED exactly when every frame is valid and
\* pinned; with a frame that is invalid or unpinned it returns OK and a frame of
\* the pool, whatever the refbits and the clock hand.
C8_AllocBufTwoSweeps ==
    Running =>
       /\ \A w \in BOOLEAN : allocBuf(Pool, -1, w).steps <= 2 * numBufs
       /\ LET ab == allocBuf(Pool, -1, TRUE)
          IN /\ (ab.status = "BUFFEREXCEEDED") <=> AllPinned(Pool)
             /\ ~AllPinned(Pool) => ab.status = "OK" /\ ab.frame \in Frames(Pool)

C8_Witness ==
    /\ last.op \in {"readPage", "allocPage"}
    /\ last.status = "BUFFEREXCEEDED"
    /\ AllPinned(Pool)

\* the descriptor and the hash entry of a page just installed in frame
Installed(bm, frame, file, pageNo) ==
    /\ frame \in Frames(bm)
    /\ bm.bufTable[frame] = Set(file, pageNo)
    /\ HashEntries(bm.hashTable, file, pageNo)
          = {[file |-> file, pageNo |-> pageNo, frameNo |-> frame]}

\* C9: a successful readPage miss and a successful allocPage leave the page in
\* the frame they return, with valid = true, pinCnt = 1, refbit = true,
\* dirty = false, the requested (file, pageNo) and a hash entry from (file,
\* pageNo) to that frame.
C9_InstalledPage ==
    Running =>
       /\ \A f \in Files, p \in PageNos, ok \in BOOLEAN, w \in BOOLEAN :
             LET r == readPage(Pool, f, p, ok, w)
             IN (~r.hit /\ r.status = "OK") => Installed(r.bm, r.frame, f, p)
       /\ \A f \in Files, p \in PageNos, w \in BOOLEAN :
             ~Resident(Pool, f, p) =>
                LET r == allocPage(Pool, f, p, w)
                IN r.status = "OK" => Installed(r.bm, r.frame, f, p)

(***************************************************************************)
(* Slotted page.  A record takes one slot and length units of the PageCap   *)
(* units of record space of the page; slot[s] = NoRec is a free slot.       *)
(***************************************************************************)
NULLRID == [pageNo |-> -1, slotNo |-> -1]

Page_init(pageNo) ==
    [ZeroPage EXCEPT !.nextPage = -1, !.curPage = pageNo]

LiveSlots(pg) == {s \in Slots : pg.slot[s] # NoRec}

\* the record space the records in the slots S take
RECURSIVE SpaceUsed(_, _)
SpaceUsed(pg, S) ==
    IF S = {}
    THEN 0
    ELSE pg.slot[CHOOSE s \in S : TRUE].length
            + SpaceUsed(pg, S \ {CHOOSE s \in S : TRUE})

MinOf(S) == CHOOSE s \in S : \A t \in S : s <= t

Page_insertRecord(pg, rec) ==
    LET free == Slots \ LiveSlots(pg) IN
    IF free = {} \/ SpaceUsed(pg, Slots) + rec.length > PageCap
    THEN [status |-> "NOSPACE", rid |-> NULLRID, pg |-> pg]
    ELSE [status |-> "OK", rid |-> [pageNo |-> pg.curPage, slotNo |-> MinOf(free)],
          pg |-> [pg EXCEPT !.slot[MinOf(free)] = rec]]

Page_deleteRecord(pg, rid) ==
    IF rid.slotNo \in LiveSlots(pg)
    THEN [status |-> "OK", pg |-> [pg EXCEPT !.slot[rid.slotNo] = NoRec]]
    ELSE [status |-> "INVALIDSLOTNO", pg |-> pg]

Page_getRecord(pg, rid) ==
    IF rid.slotNo \in LiveSlots(pg)
    THEN [status |-> "OK", rec |-> pg.slot[rid.slotNo]]
    ELSE [status |-> "INVALIDSLOTNO", rec |-> NoRec]

Page_firstRecord(pg) ==
    IF LiveSlots(pg) = {}
    THEN [status |-> "NORECORDS", rid |-> NULLRID]
    ELSE [status |-> "OK", rid |-> [pageNo |-> pg.curPage, slotNo |-> MinOf(LiveSlots(pg))]]

Page_nextRecord(pg, curRid) ==
    LET later == {s \in LiveSlots(pg) : s > curRid.slotNo} IN
    IF later = {}
    THEN [status |-> "ENDOFPAGE", rid |-> NULLRID]
    ELSE [status |-> "OK", rid |-> [pageNo |-> pg.curPage, slotNo |-> MinOf(later)]]

(***************************************************************************)
(* Heap file layer.  A Page* or FileHdrPage* is the index of the frame it  *)
(* points into, NullPage is the NULL pointer.  The heap file is one file   *)
(* of the provider; its reads and writes succeed.                          *)
(***************************************************************************)
NullPage == -1

\* the File* of the heap file
filePtr == 1

\* File::getFirstPage: the header page is the first page of the file
File_getFirstPage == 1

\* the page number the provider hands out next, -1 when the file is full
NextPageNo(bm, file) ==
    LET free == {n \in 1 .. MaxHeapPages : <<file, n>> \notin DOMAIN bm.disk} IN
    IF free = {} THEN -1 ELSE MinOf(free)

\* the longest record insertRecord accepts: PAGESIZE - DPFIXED
MaxRecLen == PageCap

\* createHeapFile, the two unPinPage(.., true): u1 unpins the header page
\* createHeapFile that unpins the data page without marking it dirty
createHeapFile_unpinned_clean(u1, newPageNo) ==
    IF u1.status # "OK"
    THEN [status |-> u1.status, bm |-> u1.bm]
    ELSE [status |-> unPinPage(u1.bm, filePtr, newPageNo, FALSE).status,
          bm |-> unPinPage(u1.bm, filePtr, newPageNo, FALSE).bm]

createHeapFile_unpinned(u1, newPageNo) ==
    IF u1.status # "OK"
    THEN [status |-> u1.status, bm |-> u1.bm]
    ELSE [status |-> unPinPage(u1.bm, filePtr, newPageNo, TRUE).status,
          bm |-> unPinPage(u1.bm, filePtr, newPageNo, TRUE).bm]

createHeapFile_unpin(bm, hdrPageNo, newPageNo) ==
    createHeapFile_unpinned(unPinPage(bm, filePtr, hdrPageNo, TRUE), newPageNo)

\* createHeapFile, from the second allocPage on: a1 is the header's allocPage
createHeapFile_data(a1, a2) ==
    IF a2.status # "OK"
    THEN [status |-> a2.status, bm |-> a2.bm]
    ELSE createHeapFile_unpin(
             [a2.bm EXCEPT
                 !.bufPool[a1.frame] =
                     [ZeroPage EXCEPT !.pageCnt = 1, !.recCnt = 0,
                                      !.firstPage = a2.pageNo,
                                      !.lastPage = a2.pageNo],
                 !.bufPool[a2.frame] = Page_init(a2.pageNo)],
             a1.pageNo, a2.pageNo)

createHeapFile_hdr(a1) ==
    IF a1.status # "OK"
    THEN [status |-> a1.status, bm |-> a1.bm]
    ELSE createHeapFile_data(
             a1, allocPage(a1.bm, filePtr, NextPageNo(a1.bm, filePtr), TRUE))

createHeapFile(bm) ==
    createHeapFile_hdr(allocPage(bm, filePtr, NextPageNo(bm, filePtr), TRUE))

\* const char *filter: NullFilter is NULL, Filter(v) points to the value v
NullFilter == [null |-> TRUE, value |-> 0, ub |-> 0]

\* the filter value v; ub is what the build yields for iattr - ifltr when the
\* subtraction overflows int, which is undefined
FilterOn(v, ub) == [null |-> FALSE, value |-> v, ub |-> ub]

Filter(v) == FilterOn(v, 0)

\* the members of a HeapFile object and of the HeapFileScan that extends it;
\* kind is its class
NoHeapFile ==
    [kind |-> "none", headerPage |-> NullPage, headerPageNo |-> -1,
     hdrDirtyFlag |-> FALSE, curPage |-> NullPage, curPageNo |-> -1,
     curDirtyFlag |-> FALSE, curRec |-> NULLRID, returnStatus |-> "OK",
     offset |-> 0, length |-> 0, type |-> "STRING", filter |-> NullFilter,
     op |-> "EQ", markedPageNo |-> -1, markedRec |-> NULLRID]

Hdr(bm, h) == bm.bufPool[h.headerPage]

\* what an operation of a heap file object returns: nullDeref when it went
\* through a NULL curPage, rid is the RID handed back
Ret(status, bm, h) ==
    [status |-> status, bm |-> bm, h |-> h, nullDeref |-> FALSE, rid |-> NULLRID,
     rec |-> NoRec]

RetRid(status, bm, h, rid) ==
    [status |-> status, bm |-> bm, h |-> h, nullDeref |-> FALSE, rid |-> rid,
     rec |-> NoRec]

\* the same with the Record handed back
RetRec(status, bm, h, rid, rec) ==
    [status |-> status, bm |-> bm, h |-> h, nullDeref |-> FALSE, rid |-> rid,
     rec |-> rec]

NullDeref(bm, h) ==
    [status |-> "OK", bm |-> bm, h |-> h, nullDeref |-> TRUE, rid |-> NULLRID,
     rec |-> NoRec]

\* a constructor that stops with status
Failed(status, bm, h) == Ret(status, bm, [h EXCEPT !.returnStatus = status])

\* HeapFile::HeapFile after the header page is read: r2 reads the first data page
HeapFile_first(r2, h, first) ==
    IF r2.status # "OK"
    THEN Failed(r2.status, r2.bm, h)
    ELSE Ret("OK", r2.bm, [h EXCEPT !.curPage = r2.frame, !.curPageNo = first])

HeapFile_hdr(r1, h) ==
    IF r1.status # "OK"
    THEN Failed(r1.status, r1.bm, h)
    ELSE HeapFile_first(
             readPage(r1.bm, filePtr, r1.bm.bufPool[r1.frame].firstPage, TRUE, TRUE),
             [h EXCEPT !.headerPage = r1.frame],
             r1.bm.bufPool[r1.frame].firstPage)

HeapFile(bm, kind) ==
    HeapFile_hdr(
        readPage(bm, filePtr, File_getFirstPage, TRUE, TRUE),
        [NoHeapFile EXCEPT !.kind = kind, !.headerPageNo = File_getFirstPage])

HeapFileScan(bm) == HeapFile(bm, "HeapFileScan")

\* InsertFileScan::InsertFileScan once the first page is unpinned
InsertFileScan_last(r, h, lastPage) ==
    Ret(r.status, r.bm,
        [h EXCEPT !.curPageNo = lastPage,
                  !.curPage = IF r.status = "OK" THEN r.frame ELSE @,
                  !.curDirtyFlag = FALSE,
                  !.returnStatus = r.status])

InsertFileScan_body(c) ==
    IF c.h.curPage # NullPage /\ c.h.curPageNo # Hdr(c.bm, c.h).lastPage
    THEN InsertFileScan_last(
             readPage(unPinPage(c.bm, filePtr, c.h.curPageNo, c.h.curDirtyFlag).bm,
                      filePtr, Hdr(c.bm, c.h).lastPage, TRUE, TRUE),
             c.h, Hdr(c.bm, c.h).lastPage)
    ELSE c

InsertFileScan(bm) == InsertFileScan_body(HeapFile(bm, "InsertFileScan"))

\* ~HeapFile unpinning the header page as clean whatever hdrDirtyFlag says
HeapFileDtor_hdr_clean(bm, h) ==
    Ret(unPinPage(bm, filePtr, h.headerPageNo, FALSE).status,
        unPinPage(bm, filePtr, h.headerPageNo, FALSE).bm,
        NoHeapFile)

\* ~HeapFile once the data page is unpinned
HeapFileDtor_hdr(bm, h) ==
    Ret(unPinPage(bm, filePtr, h.headerPageNo, h.hdrDirtyFlag).status,
        unPinPage(bm, filePtr, h.headerPageNo, h.hdrDirtyFlag).bm,
        NoHeapFile)

\* ~HeapFile
HeapFileDtor(bm, h) ==
    IF h.curPage # NullPage
    THEN HeapFileDtor_hdr(unPinPage(bm, filePtr, h.curPageNo, h.curDirtyFlag).bm, h)
    ELSE HeapFileDtor_hdr(bm, h)

\* endScan that leaves curPage set after it has unpinned the page
endScan_keepsPage(bm, h) ==
    IF h.curPage # NullPage
    THEN Ret(unPinPage(bm, filePtr, h.curPageNo, h.curDirtyFlag).status,
             unPinPage(bm, filePtr, h.curPageNo, h.curDirtyFlag).bm,
             [h EXCEPT !.curDirtyFlag = FALSE])
    ELSE Ret("OK", bm, h)

endScan(bm, h) ==
    IF h.curPage # NullPage
    THEN Ret(unPinPage(bm, filePtr, h.curPageNo, h.curDirtyFlag).status,
             unPinPage(bm, filePtr, h.curPageNo, h.curDirtyFlag).bm,
             [h EXCEPT !.curPage = NullPage, !.curPageNo = 0,
                       !.curDirtyFlag = FALSE])
    ELSE Ret("OK", bm, h)

HeapFileScanDtor_body(e) == HeapFileDtor(e.bm, e.h)

\* ~HeapFileScan, then ~HeapFile
HeapFileScanDtor(bm, h) == HeapFileScanDtor_body(endScan(bm, h))

\* ~InsertFileScan, then ~HeapFile
InsertFileScanDtor(bm, h) ==
    IF h.curPage # NullPage
    THEN HeapFileDtor(unPinPage(bm, filePtr, h.curPageNo, TRUE).bm,
                      [h EXCEPT !.curPage = NullPage, !.curPageNo = 0])
    ELSE HeapFileDtor(bm, h)

\* insertRecord, the bookkeeping after the record is on the page
insertRecord_done(bm, h, rid) ==
    RetRid("OK",
           [bm EXCEPT !.bufPool[h.headerPage].recCnt = @ + 1],
           [h EXCEPT !.curDirtyFlag = TRUE, !.curRec = rid, !.hdrDirtyFlag = TRUE],
           rid)

\* insertRecord, the second curPage->insertRecord, on the new page
insertRecord_again(bm, h, ins) ==
    IF ins.status # "OK"
    THEN Ret(ins.status, bm, h)
    ELSE insertRecord_done([bm EXCEPT !.bufPool[h.curPage] = ins.pg], h, ins.rid)

\* insertRecord once the full page is unpinned
insertRecord_unpinned(un, h, newPage, newPageNo, rec) ==
    IF un.status # "OK"
    THEN Ret(un.status, un.bm, h)
    ELSE insertRecord_again(
             [un.bm EXCEPT !.bufPool[h.headerPage].lastPage = newPageNo,
                           !.bufPool[h.headerPage].pageCnt = @ + 1],
             [h EXCEPT !.curPage = newPage, !.curPageNo = newPageNo],
             Page_insertRecord(un.bm.bufPool[newPage], rec))

\* insertRecord on NOSPACE: ap is the allocPage of the new page
insertRecord_alloc(ap, h, rec) ==
    IF ap.status # "OK"
    THEN Ret(ap.status, ap.bm, h)
    ELSE insertRecord_unpinned(
             unPinPage([ap.bm EXCEPT
                           !.bufPool[ap.frame] = Page_init(ap.pageNo),
                           !.bufPool[h.headerPage].lastPage = ap.pageNo,
                           !.bufPool[h.curPage].nextPage = ap.pageNo],
                       filePtr, h.curPageNo, TRUE),
             [h EXCEPT !.curDirtyFlag = TRUE], ap.frame, ap.pageNo, rec)

\* insertRecord, the first curPage->insertRecord
insertRecord_first(bm, h, rec, ins) ==
    IF ins.status = "NOSPACE"
    THEN insertRecord_alloc(allocPage(bm, filePtr, NextPageNo(bm, filePtr), TRUE),
                            h, rec)
    ELSE IF ins.status # "OK"
    THEN Ret(ins.status, bm, h)
    ELSE insertRecord_done([bm EXCEPT !.bufPool[h.curPage] = ins.pg], h, ins.rid)

\* insertRecord with curPage == NULL: rd reads the last page
insertRecord_read(rd, h, lastPage, rec) ==
    IF rd.status # "OK"
    THEN Ret(rd.status, rd.bm, h)
    ELSE insertRecord_first(rd.bm,
                            [h EXCEPT !.curPage = rd.frame, !.curPageNo = lastPage],
                            rec, Page_insertRecord(rd.bm.bufPool[rd.frame], rec))

\* InsertFileScan::insertRecord
insertRecord(bm, h, rec) ==
    IF rec.length > MaxRecLen
    THEN Ret("INVALIDRECLEN", bm, h)
    ELSE IF h.curPage = NullPage
    THEN insertRecord_read(readPage(bm, filePtr, Hdr(bm, h).lastPage, TRUE, TRUE),
                           h, Hdr(bm, h).lastPage, rec)
    ELSE insertRecord_first(bm, h, rec,
                            Page_insertRecord(bm.bufPool[h.curPage], rec))

deleteRecord_page(bm, h, del) ==
    IF del.status = "OK"
    THEN Ret("OK",
             [bm EXCEPT !.bufPool[h.curPage] = del.pg,
                        !.bufPool[h.headerPage].recCnt = @ - 1],
             [h EXCEPT !.curDirtyFlag = TRUE, !.hdrDirtyFlag = TRUE])
    ELSE Ret(del.status, bm, h)

\* HeapFileScan::deleteRecord
deleteRecord(bm, h) ==
    IF h.curPage = NullPage
    THEN NullDeref(bm, h)
    ELSE deleteRecord_page(bm, h, Page_deleteRecord(bm.bufPool[h.curPage], h.curRec))

\* getRecord, the page switch once the new page is read
getRecord_read(rd, h, rid) ==
    IF rd.status # "OK"
    THEN Ret(rd.status, rd.bm, h)
    ELSE IF Page_getRecord(rd.bm.bufPool[rd.frame], rid).status # "OK"
    THEN Ret(Page_getRecord(rd.bm.bufPool[rd.frame], rid).status, rd.bm,
             [h EXCEPT !.curPage = rd.frame])
    ELSE RetRec("OK", rd.bm,
                [h EXCEPT !.curPage = rd.frame, !.curRec = rid,
                          !.curPageNo = rid.pageNo, !.curDirtyFlag = FALSE],
                rid, Page_getRecord(rd.bm.bufPool[rd.frame], rid).rec)

getRecord_unpinned(un, h, rid) ==
    IF un.status # "OK"
    THEN Ret(un.status, un.bm, h)
    ELSE getRecord_read(readPage(un.bm, filePtr, rid.pageNo, TRUE, TRUE), h, rid)

\* HeapFile::getRecord(rid, rec)
getRecord(bm, h, rid) ==
    IF h.curPage # NullPage /\ h.curPageNo = rid.pageNo
    THEN IF Page_getRecord(bm.bufPool[h.curPage], rid).status # "OK"
         THEN Ret(Page_getRecord(bm.bufPool[h.curPage], rid).status, bm, h)
         ELSE RetRec("OK", bm, [h EXCEPT !.curRec.slotNo = rid.slotNo], rid,
                     Page_getRecord(bm.bufPool[h.curPage], rid).rec)
    ELSE IF h.curPageNo # NULLRID.pageNo
    THEN getRecord_unpinned(unPinPage(bm, filePtr, h.curPageNo, h.curDirtyFlag), h, rid)
    ELSE getRecord_unpinned([status |-> "OK", bm |-> bm], h, rid)

\* curPage->firstRecord or curPage->nextRecord, by curRec
NextOnPage(bm, h) ==
    IF h.curRec = NULLRID
    THEN Page_firstRecord(bm.bufPool[h.curPage])
    ELSE Page_nextRecord(bm.bufPool[h.curPage], h.curRec)

\* A STRING field of n bytes is held as the number its bytes spell, first byte
\* most significant, each byte in 0 .. ByteMax: byte i of the field v
ByteAt(v, i, n) == (v \div ((ByteMax + 1) ^ (n - 1 - i))) % (ByteMax + 1)

\* strncmp(s1, s2, n) from byte i on: the difference of the first bytes that
\* differ, 0 when a zero byte or the end of the n bytes comes first
RECURSIVE strncmp_from(_, _, _, _)
strncmp_from(s1, s2, n, i) ==
    IF i >= n
    THEN 0
    ELSE IF ByteAt(s1, i, n) # ByteAt(s2, i, n)
    THEN ByteAt(s1, i, n) - ByteAt(s2, i, n)
    ELSE IF ByteAt(s1, i, n) = 0
    THEN 0
    ELSE strncmp_from(s1, s2, n, i + 1)

strncmp(s1, s2, n) == strncmp_from(s1, s2, n, 0)

\* the difference matchRec computes between the field of the record and the
\* filter value
matchRec_diff(h, rec) ==
    IF h.type = "INTEGER" /\ (rec.data - h.filter.value) \notin IntMin .. IntMax
    THEN h.filter.ub
    ELSE IF h.type = "STRING"
    THEN strncmp(rec.data, h.filter.value, h.length)
    ELSE rec.data - h.filter.value

matchRec_op(op, diff) ==
    CASE op = "LT" -> diff < 0
      [] op = "LTE" -> diff <= 0
      [] op = "EQ" -> diff = 0
      [] op = "GTE" -> diff >= 0
      [] op = "GT" -> diff > 0
      [] op = "NE" -> diff # 0
      [] OTHER -> FALSE

\* HeapFileScan::matchRec
matchRec(h, rec) ==
    IF h.filter.null
    THEN TRUE
    ELSE IF h.offset + h.length - 1 >= rec.length
    THEN FALSE
    ELSE matchRec_op(h.op, matchRec_diff(h, rec))

\* the while loop of scanNext
RECURSIVE scanNextLoop(_, _)

scanNext_read(rd, h, nextPageNo) ==
    IF rd.status # "OK"
    THEN Ret(rd.status, rd.bm, h)
    ELSE scanNextLoop(rd.bm,
                      [h EXCEPT !.curPage = rd.frame, !.curDirtyFlag = FALSE,
                                !.curPageNo = nextPageNo, !.curRec = NULLRID])

\* scanNext moving to the next page while the previous page stays pinned
scanNext_unpinned_kept(un, h, nextPageNo) ==
    IF un.status # "OK"
    THEN Ret(un.status, un.bm, h)
    ELSE IF nextPageNo = -1
    THEN Ret("FILEEOF", un.bm,
             [h EXCEPT !.curPage = NullPage, !.curPageNo = -1, !.curRec = NULLRID])
    ELSE scanNext_read(readPage(readPage(un.bm, filePtr, h.curPageNo, TRUE, TRUE).bm,
                                filePtr, nextPageNo, TRUE, TRUE),
                       [h EXCEPT !.curPage = NullPage], nextPageNo)

\* scanNext that forgets to mark the scan as finished at the end of the file
scanNext_unpinned_restarts(un, h, nextPageNo) ==
    IF un.status # "OK"
    THEN Ret(un.status, un.bm, h)
    ELSE IF nextPageNo = -1
    THEN Ret("FILEEOF", un.bm, [h EXCEPT !.curPage = NullPage, !.curRec = NULLRID])
    ELSE scanNext_read(readPage(un.bm, filePtr, nextPageNo, TRUE, TRUE),
                       [h EXCEPT !.curPage = NullPage], nextPageNo)

scanNext_unpinned(un, h, nextPageNo) ==
    IF un.status # "OK"
    THEN Ret(un.status, un.bm, h)
    ELSE IF nextPageNo = -1
    THEN Ret("FILEEOF", un.bm,
             [h EXCEPT !.curPage = NullPage, !.curPageNo = -1, !.curRec = NULLRID])
    ELSE scanNext_read(readPage(un.bm, filePtr, nextPageNo, TRUE, TRUE),
                       [h EXCEPT !.curPage = NullPage], nextPageNo)

\* scanNext that unpins the page it leaves as dirty
scanNext_record_dirty(bm, h, nx) ==
    IF nx.status \in {"ENDOFPAGE", "NORECORDS"}
    THEN scanNext_unpinned(unPinPage(bm, filePtr, h.curPageNo, TRUE), h,
                           bm.bufPool[h.curPage].nextPage)
    ELSE IF Page_getRecord(bm.bufPool[h.curPage], nx.rid).status # "OK"
    THEN Ret(Page_getRecord(bm.bufPool[h.curPage], nx.rid).status, bm,
             [h EXCEPT !.curRec = nx.rid])
    ELSE IF h.filter.null \/ matchRec(h, Page_getRecord(bm.bufPool[h.curPage], nx.rid).rec)
    THEN RetRid("OK", bm, [h EXCEPT !.curRec = nx.rid], nx.rid)
    ELSE scanNextLoop(bm, [h EXCEPT !.curRec = nx.rid])

\* scanNext that returns a record without moving the scan onto it
scanNext_record_stays(bm, h, nx) ==
    IF nx.status \in {"ENDOFPAGE", "NORECORDS"}
    THEN scanNext_unpinned(unPinPage(bm, filePtr, h.curPageNo, h.curDirtyFlag), h,
                           bm.bufPool[h.curPage].nextPage)
    ELSE IF Page_getRecord(bm.bufPool[h.curPage], nx.rid).status # "OK"
    THEN Ret(Page_getRecord(bm.bufPool[h.curPage], nx.rid).status, bm,
             [h EXCEPT !.curRec = nx.rid])
    ELSE IF h.filter.null \/ matchRec(h, Page_getRecord(bm.bufPool[h.curPage], nx.rid).rec)
    THEN RetRid("OK", bm, h, nx.rid)
    ELSE scanNextLoop(bm, [h EXCEPT !.curRec = nx.rid])

scanNext_record(bm, h, nx) ==
    IF nx.status \in {"ENDOFPAGE", "NORECORDS"}
    THEN scanNext_unpinned(unPinPage(bm, filePtr, h.curPageNo, h.curDirtyFlag), h,
                           bm.bufPool[h.curPage].nextPage)
    ELSE IF Page_getRecord(bm.bufPool[h.curPage], nx.rid).status # "OK"
    THEN Ret(Page_getRecord(bm.bufPool[h.curPage], nx.rid).status, bm,
             [h EXCEPT !.curRec = nx.rid])
    ELSE IF h.filter.null \/ matchRec(h, Page_getRecord(bm.bufPool[h.curPage], nx.rid).rec)
    THEN RetRid("OK", bm, [h EXCEPT !.curRec = nx.rid], nx.rid)
    ELSE scanNextLoop(bm, [h EXCEPT !.curRec = nx.rid])

scanNextLoop(bm, h) == scanNext_record(bm, h, NextOnPage(bm, h))

scanNext_first(rd, h, firstPage) ==
    IF rd.status # "OK"
    THEN Ret(rd.status, rd.bm, h)
    ELSE scanNextLoop(rd.bm,
                      [h EXCEPT !.curPage = rd.frame, !.curPageNo = firstPage,
                                !.curDirtyFlag = FALSE, !.curRec = NULLRID])

\* HeapFileScan::scanNext
scanNext(bm, h) ==
    IF h.curPage = NullPage /\ h.curPageNo = -1
    THEN Ret("FILEEOF", bm, h)
    ELSE IF h.curPage = NullPage
    THEN scanNext_first(readPage(bm, filePtr, Hdr(bm, h).firstPage, TRUE, TRUE),
                        h, Hdr(bm, h).firstPage)
    ELSE scanNextLoop(bm, h)

\* sizeof(int) and sizeof(float), in units of record space
sizeofInt == 1

sizeofFloat == 1

\* the parameter check of startScan without the length checks of INTEGER
\* and FLOAT
BadScanParm_noSize(offset_, length_, type_, op_) ==
    \/ offset_ < 0 \/ length_ < 1
    \/ type_ \notin {"STRING", "INTEGER", "FLOAT"}
    \/ op_ \notin {"LT", "LTE", "EQ", "GTE", "GT", "NE"}

\* the parameter combinations startScan rejects
BadScanParm(offset_, length_, type_, op_) ==
    \/ offset_ < 0 \/ length_ < 1
    \/ type_ \notin {"STRING", "INTEGER", "FLOAT"}
    \/ (type_ = "INTEGER" /\ length_ # sizeofInt)
    \/ (type_ = "FLOAT" /\ length_ # sizeofFloat)
    \/ op_ \notin {"LT", "LTE", "EQ", "GTE", "GT", "NE"}

\* HeapFileScan::startScan
startScan(bm, h, offset_, length_, type_, filter_, op_) ==
    IF filter_.null
    THEN Ret("OK", bm, [h EXCEPT !.filter = NullFilter])
    ELSE IF BadScanParm(offset_, length_, type_, op_)
    THEN Ret("BADSCANPARM", bm, h)
    ELSE Ret("OK", bm,
             [h EXCEPT !.offset = offset_, !.length = length_, !.type = type_,
                       !.filter = filter_, !.op = op_])

\* markScan that snapshots the page number and not the record
markScan_pageOnly(bm, h) ==
    Ret("OK", bm, [h EXCEPT !.markedPageNo = h.curPageNo])

\* HeapFileScan::markScan
markScan(bm, h) ==
    Ret("OK", bm, [h EXCEPT !.markedPageNo = h.curPageNo, !.markedRec = h.curRec])

\* resetScan once the marked page is read
resetScan_read(rd, h) ==
    IF rd.status # "OK"
    THEN Ret(rd.status, rd.bm, h)
    ELSE Ret("OK", rd.bm, [h EXCEPT !.curPage = rd.frame, !.curDirtyFlag = FALSE])

\* resetScan once the current page is unpinned
resetScan_unpinned(un, h) ==
    IF un.status # "OK"
    THEN Ret(un.status, un.bm, h)
    ELSE resetScan_read(readPage(un.bm, filePtr, h.markedPageNo, TRUE, TRUE),
                        [h EXCEPT !.curPageNo = h.markedPageNo,
                                  !.curRec = h.markedRec])

\* HeapFileScan::resetScan
resetScan(bm, h) ==
    IF h.markedPageNo # h.curPageNo
    THEN IF h.curPage # NullPage
         THEN resetScan_unpinned(
                  unPinPage(bm, filePtr, h.curPageNo, h.curDirtyFlag), h)
         ELSE resetScan_unpinned([status |-> "OK", bm |-> bm], h)
    ELSE Ret("OK", bm, [h EXCEPT !.curRec = h.markedRec])

\* HeapFileScan::getRecord(rec): the record at curRec
HeapFileScan_getRecord(bm, h) ==
    IF h.curPage = NullPage \/ h.curRec.pageNo # h.curPageNo
    THEN Ret("BADPAGENO", bm, h)
    ELSE RetRec(Page_getRecord(bm.bufPool[h.curPage], h.curRec).status, bm, h,
                h.curRec, Page_getRecord(bm.bufPool[h.curPage], h.curRec).rec)

\* HeapFileScan::markDirty
markDirty(bm, h) == Ret("OK", bm, [h EXCEPT !.curDirtyFlag = TRUE])

(***************************************************************************)
(* The second variant of the heap file layer, src/unnamed/part_001.  Its   *)
(* objects have the kinds "HeapFileScan_v2" and "InsertFileScan_v2"; the   *)
(* constructor leaves filePtr NULL exactly when returnStatus is not OK.    *)
(***************************************************************************)
\* HeapFile::HeapFile, a failed readPage of the first data page: the header
\* page is unpinned, headerPage = NULL
HeapFile_v2_failed(un, status, h) ==
    Failed(status, un.bm, [h EXCEPT !.headerPage = NullPage])

\* HeapFile::HeapFile after the header page is read: r2 reads the first data page
HeapFile_v2_first(r2, h, first) ==
    IF r2.status # "OK"
    THEN HeapFile_v2_failed(unPinPage(r2.bm, filePtr, h.headerPageNo, FALSE),
                            r2.status, h)
    ELSE Ret("OK", r2.bm, [h EXCEPT !.curPage = r2.frame, !.curPageNo = first])

HeapFile_v2_hdr(r1, h) ==
    IF r1.status # "OK"
    THEN Failed(r1.status, r1.bm, h)
    ELSE IF r1.bm.bufPool[r1.frame].firstPage # -1
    THEN HeapFile_v2_first(
             readPage(r1.bm, filePtr, r1.bm.bufPool[r1.frame].firstPage, TRUE, TRUE),
             [h EXCEPT !.headerPage = r1.frame],
             r1.bm.bufPool[r1.frame].firstPage)
    ELSE Ret("OK", r1.bm, [h EXCEPT !.headerPage = r1.frame])

HeapFile_v2(bm, kind) ==
    HeapFile_v2_hdr(
        readPage(bm, filePtr, File_getFirstPage, TRUE, TRUE),
        [NoHeapFile EXCEPT !.kind = kind, !.headerPageNo = File_getFirstPage])

\* ~HeapFile once the data page is unpinned
HeapFileDtor_v2_hdr(bm, h) ==
    IF h.headerPage # NullPage
    THEN Ret(unPinPage(bm, filePtr, h.headerPageNo, h.hdrDirtyFlag).status,
             unPinPage(bm, filePtr, h.headerPageNo, h.hdrDirtyFlag).bm,
             NoHeapFile)
    ELSE Ret("OK", bm, NoHeapFile)

\* ~HeapFile
HeapFileDtor_v2(bm, h) ==
    IF h.returnStatus # "OK"
    THEN Ret("OK", bm, NoHeapFile)
    ELSE IF h.curPage # NullPage
    THEN HeapFileDtor_v2_hdr(
             unPinPage(bm, filePtr, h.curPageNo, h.curDirtyFlag).bm, h)
    ELSE HeapFileDtor_v2_hdr(bm, h)

\* HeapFile::getRecord, the record lookup on the current page
getRecord_v2_lookup(bm, h, rid) ==
    IF Page_getRecord(bm.bufPool[h.curPage], rid).status = "OK"
    THEN RetRec("OK", bm, [h EXCEPT !.curRec = rid], rid,
                Page_getRecord(bm.bufPool[h.curPage], rid).rec)
    ELSE Ret(Page_getRecord(bm.bufPool[h.curPage], rid).status, bm, h)

getRecord_v2_read(rd, h, rid) ==
    IF rd.status # "OK"
    THEN Ret(rd.status, rd.bm,
             [h EXCEPT !.curPage = NullPage, !.curPageNo = -1,
                       !.curDirtyFlag = FALSE])
    ELSE getRecord_v2_lookup(
             rd.bm,
             [h EXCEPT !.curPage = rd.frame, !.curPageNo = rid.pageNo,
                       !.curDirtyFlag = FALSE],
             rid)

getRecord_v2_unpinned(un, h, rid) ==
    IF un.status # "OK"
    THEN Ret(un.status, un.bm, h)
    ELSE getRecord_v2_read(readPage(un.bm, filePtr, rid.pageNo, TRUE, TRUE), h, rid)

\* HeapFile::getRecord(rid, rec)
getRecord_v2(bm, h, rid) ==
    IF rid.pageNo < 0 \/ rid.slotNo = 0
    THEN Ret("BADRID", bm, h)
    ELSE IF h.curPage = NullPage \/ h.curPageNo # rid.pageNo
    THEN IF h.curPage # NullPage
         THEN getRecord_v2_unpinned(
                  unPinPage(bm, filePtr, h.curPageNo, h.curDirtyFlag), h, rid)
         ELSE getRecord_v2_unpinned([status |-> "OK", bm |-> bm], h, rid)
    ELSE getRecord_v2_lookup(bm, h, rid)

\* HeapFileScan::HeapFileScan
HeapFileScan_v2(bm) == HeapFile_v2(bm, "HeapFileScan_v2")

\* startScan, the readPage of the first data page
startScan_v2_read(rd, h, firstPage) ==
    IF rd.status # "OK"
    THEN Ret(rd.status, rd.bm, h)
    ELSE Ret("OK", rd.bm,
             [h EXCEPT !.curPage = rd.frame, !.curPageNo = firstPage,
                       !.curDirtyFlag = FALSE, !.curRec = NULLRID])

\* startScan once the current page is unpinned
startScan_v2_first(bm, h) ==
    IF h.headerPage = NullPage
    THEN Ret("OK", bm, [h EXCEPT !.curRec = NULLRID])
    ELSE IF Hdr(bm, h).firstPage = -1
    THEN Ret("OK", bm, [h EXCEPT !.curRec = NULLRID])
    ELSE startScan_v2_read(readPage(bm, filePtr, Hdr(bm, h).firstPage, TRUE, TRUE),
                           h, Hdr(bm, h).firstPage)

startScan_v2_unpinned(un, h) ==
    IF un.status # "OK"
    THEN Ret(un.status, un.bm, h)
    ELSE startScan_v2_first(un.bm,
                            [h EXCEPT !.curPage = NullPage, !.curPageNo = -1,
                                      !.curDirtyFlag = FALSE])

\* startScan after the parameters are taken: the reset to the first data page
startScan_v2_reset(bm, h) ==
    IF h.curPage # NullPage
    THEN startScan_v2_unpinned(
             unPinPage(bm, filePtr, h.curPageNo, h.curDirtyFlag), h)
    ELSE startScan_v2_first(bm, h)

\* HeapFileScan::startScan
startScan_v2(bm, h, offset_, length_, type_, filter_, op_) ==
    IF filter_.null
    THEN startScan_v2_reset(
             bm, [h EXCEPT !.filter = NullFilter, !.markedPageNo = -1,
                           !.markedRec = NULLRID])
    ELSE IF BadScanParm(offset_, length_, type_, op_)
    THEN Ret("BADSCANPARM", bm, h)
    ELSE startScan_v2_reset(
             bm, [h EXCEPT !.offset = offset_, !.length = length_, !.type = type_,
                           !.filter = filter_, !.op = op_, !.markedPageNo = -1,
                           !.markedRec = NULLRID])

\* HeapFileScan::endScan
endScan_v2(bm, h) ==
    IF h.curPage # NullPage
    THEN Ret(unPinPage(bm, filePtr, h.curPageNo, h.curDirtyFlag).status,
             unPinPage(bm, filePtr, h.curPageNo, h.curDirtyFlag).bm,
             [h EXCEPT !.curPage = NullPage, !.curPageNo = -1,
                       !.curDirtyFlag = FALSE, !.curRec = NULLRID])
    ELSE Ret("OK", bm, h)

HeapFileScanDtor_v2_body(e) == HeapFileDtor_v2(e.bm, e.h)

\* ~HeapFileScan, then ~HeapFile
HeapFileScanDtor_v2(bm, h) == HeapFileScanDtor_v2_body(endScan_v2(bm, h))

\* HeapFileScan::markScan
markScan_v2(bm, h) ==
    IF h.curRec.pageNo < 0 \/ h.curPage = NullPage
    THEN Ret("BADSCANID", bm, h)
    ELSE Ret("OK", bm, [h EXCEPT !.markedPageNo = h.curPageNo, !.markedRec = h.curRec])

resetScan_v2_read(rd, h) ==
    IF rd.status # "OK"
    THEN Ret(rd.status, rd.bm, h)
    ELSE Ret("OK", rd.bm, [h EXCEPT !.curPage = rd.frame, !.curDirtyFlag = FALSE])

resetScan_v2_unpinned(un, h) ==
    IF un.status # "OK"
    THEN Ret(un.status, un.bm, h)
    ELSE resetScan_v2_read(readPage(un.bm, filePtr, h.markedPageNo, TRUE, TRUE),
                           [h EXCEPT !.curPageNo = h.markedPageNo,
                                     !.curRec = h.markedRec])

\* HeapFileScan::resetScan
resetScan_v2(bm, h) ==
    IF h.markedPageNo < 0
    THEN Ret("BADSCANID", bm, h)
    ELSE IF h.curPage = NullPage \/ h.markedPageNo # h.curPageNo
    THEN IF h.curPage # NullPage
         THEN resetScan_v2_unpinned(
                  unPinPage(bm, filePtr, h.curPageNo, h.curDirtyFlag), h)
         ELSE resetScan_v2_unpinned([status |-> "OK", bm |-> bm], h)
    ELSE Ret("OK", bm, [h EXCEPT !.curRec = h.markedRec])

\* curPage->nextRecord or curPage->firstRecord, by curRec
NextOnPage_v2(bm, h) ==
    IF h.curRec.pageNo = h.curPageNo /\ h.curRec.slotNo # -1
    THEN Page_nextRecord(bm.bufPool[h.curPage], h.curRec)
    ELSE Page_firstRecord(bm.bufPool[h.curPage])

\* the while loop of scanNext
RECURSIVE scanNextLoop_v2(_, _)

scanNext_v2_read(rd, h, nextPageNo) ==
    IF rd.status # "OK"
    THEN Ret(rd.status, rd.bm, [h EXCEPT !.curPage = NullPage, !.curPageNo = -1])
    ELSE scanNextLoop_v2(rd.bm,
                         [h EXCEPT !.curPage = rd.frame, !.curPageNo = nextPageNo,
                                   !.curDirtyFlag = FALSE, !.curRec = NULLRID])

scanNext_v2_unpinned(un, h, nextPageNo) ==
    IF un.status # "OK"
    THEN Ret(un.status, un.bm, h)
    ELSE scanNext_v2_read(readPage(un.bm, filePtr, nextPageNo, TRUE, TRUE),
                          h, nextPageNo)

scanNext_v2_record(bm, h, nx) ==
    IF nx.status = "OK"
    THEN IF Page_getRecord(bm.bufPool[h.curPage], nx.rid).status # "OK"
         THEN Ret(Page_getRecord(bm.bufPool[h.curPage], nx.rid).status, bm, h)
         ELSE IF matchRec(h, Page_getRecord(bm.bufPool[h.curPage], nx.rid).rec)
         THEN RetRid("OK", bm, [h EXCEPT !.curRec = nx.rid], nx.rid)
         ELSE scanNextLoop_v2(bm, [h EXCEPT !.curRec = nx.rid])
    ELSE IF bm.bufPool[h.curPage].nextPage = -1
    THEN Ret("FILEEOF", bm, h)
    ELSE scanNext_v2_unpinned(unPinPage(bm, filePtr, h.curPageNo, h.curDirtyFlag),
                              h, bm.bufPool[h.curPage].nextPage)

scanNextLoop_v2(bm, h) == scanNext_v2_record(bm, h, NextOnPage_v2(bm, h))

scanNext_v2_first(rd, h, firstPage) ==
    IF rd.status # "OK"
    THEN Ret(rd.status, rd.bm, h)
    ELSE scanNextLoop_v2(rd.bm,
                         [h EXCEPT !.curPage = rd.frame, !.curPageNo = firstPage,
                                   !.curDirtyFlag = FALSE, !.curRec = NULLRID])

\* HeapFileScan::scanNext
scanNext_v2(bm, h) ==
    IF h.headerPage = NullPage
    THEN Ret("BADSCANID", bm, h)
    ELSE IF h.curPage = NullPage
    THEN IF Hdr(bm, h).firstPage = -1
         THEN Ret("FILEEOF", bm, h)
         ELSE scanNext_v2_first(
                  readPage(bm, filePtr, Hdr(bm, h).firstPage, TRUE, TRUE),
                  h, Hdr(bm, h).firstPage)
    ELSE scanNextLoop_v2(bm, h)

\* HeapFileScan::getRecord(rec): the record at curRec
HeapFileScan_getRecord_v2(bm, h) ==
    IF h.curPage = NullPage \/ h.curRec.pageNo < 0
    THEN Ret("BADSCANID", bm, h)
    ELSE RetRec(Page_getRecord(bm.bufPool[h.curPage], h.curRec).status, bm, h,
                h.curRec, Page_getRecord(bm.bufPool[h.curPage], h.curRec).rec)

deleteRecord_v2_page(bm, h, del) ==
    IF del.status # "OK"
    THEN Ret(del.status, bm, h)
    ELSE IF h.headerPage # NullPage
    THEN Ret("OK",
             [bm EXCEPT !.bufPool[h.curPage] = del.pg,
                        !.bufPool[h.headerPage].recCnt = @ - 1],
             [h EXCEPT !.curDirtyFlag = TRUE, !.hdrDirtyFlag = TRUE])
    ELSE Ret("OK", [bm EXCEPT !.bufPool[h.curPage] = del.pg],
             [h EXCEPT !.curDirtyFlag = TRUE])

\* HeapFileScan::deleteRecord
deleteRecord_v2(bm, h) ==
    IF h.curPage = NullPage \/ h.curRec.pageNo < 0
    THEN Ret("BADSCANID", bm, h)
    ELSE deleteRecord_v2_page(bm, h,
                              Page_deleteRecord(bm.bufPool[h.curPage], h.curRec))

\* InsertFileScan::InsertFileScan
InsertFileScan_v2(bm) == HeapFile_v2(bm, "InsertFileScan_v2")

\* ~InsertFileScan, then ~HeapFile
InsertFileScanDtor_v2(bm, h) ==
    IF h.curPage # NullPage
    THEN HeapFileDtor_v2(unPinPage(bm, filePtr, h.curPageNo, TRUE).bm,
                         [h EXCEPT !.curPage = NullPage, !.curPageNo = 0])
    ELSE HeapFileDtor_v2(bm, h)

\* the values a function that ends without a return statement can hand back
NoReturn ==
    {"OK", "INVALIDRECLEN", "NOSPACE", "UNIXERR"}

\* InsertFileScan::insertRecord: after the length check the function ends
\* without a return statement and without an insert; garbage is what the
\* caller then reads as the Status
insertRecord_v2(bm, h, rec, garbage) ==
    IF rec.length > MaxRecLen
    THEN Ret("INVALIDRECLEN", bm, h)
    ELSE Ret(garbage, bm, h)

(***************************************************************************)
(* Heap file objects of a client on one heap file                          *)
(***************************************************************************)
\* the objects the client can hold at a time
HeapIds == {1, 2}

\* the objects the client uses for inserts
InsertIds == {1}

\* the objects the client uses for scans
ScanIds == {2}

\* the RIDs a client can have got from the file
Rids == {[pageNo |-> p, slotNo |-> s] : p \in 2 .. MaxHeapPages, s \in Slots}

\* the contents of page pageNo of the heap file: its frame when it is in the
\* pool, what the provider holds otherwise
PageNow(bm, pageNo) ==
    IF Resident(bm, filePtr, pageNo)
    THEN bm.bufPool[CHOOSE i \in Frames(bm) : Holds(bm, i, filePtr, pageNo)]
    ELSE bm.disk[<<filePtr, pageNo>>]

\* the classes of the two variants of the heap file layer
Kinds4 == {"HeapFileScan", "InsertFileScan"}

KindsV2 == {"HeapFileScan_v2", "InsertFileScan_v2"}

\* the client is linked with one variant: it has no object of the classes kinds
NoneOf(kinds) == \A id \in HeapIds : heap[id].kind \notin kinds

\* the buffer descriptor of the frame that holds page pageNo of the heap file
PageFrame(bm, pageNo) ==
    bm.bufTable[CHOOSE i \in Frames(bm) : Holds(bm, i, filePtr, pageNo)]

HeapInit ==
    /\ Start(createHeapFile(BufMgr(HeapBufs) @@ [disk |-> <<>>]).bm)
    /\ alive = TRUE
    /\ fault = "none"
    /\ last = Call("createHeapFile", filePtr, -1, FALSE, "OK", {})
    /\ heap = [id \in HeapIds |-> NoHeapFile]

Usable(id, kinds) ==
    /\ Running
    /\ heap[id].kind \in kinds
    /\ heap[id].returnStatus = "OK"

Done(id, op, r) ==
    /\ Install(r.bm)
    /\ heap' = [heap EXCEPT ![id] = r.h]
    /\ last' = Call(op, filePtr, -1, FALSE, r.status, {})
    /\ UNCHANGED <<alive, fault>>

OpenScan(id) ==
    /\ Running
    /\ heap[id].kind = "none"
    /\ Done(id, "HeapFileScan", HeapFileScan(Pool))

OpenInsert(id) ==
    /\ Running
    /\ heap[id].kind = "none"
    /\ Done(id, "InsertFileScan", InsertFileScan(Pool))

Close(id) ==
    /\ Running
    /\ heap[id].kind \in Kinds4
    /\ Done(id, "~HeapFile",
            IF heap[id].kind = "InsertFileScan"
            THEN InsertFileScanDtor(Pool, heap[id])
            ELSE HeapFileScanDtor(Pool, heap[id]))

InsertRecord(id, length) ==
    /\ Usable(id, {"InsertFileScan"})
    /\ Done(id, "insertRecord", insertRecord(Pool, heap[id], [data |-> 1, length |-> length]))

ScanNext(id) ==
    /\ Usable(id, {"HeapFileScan"})
    /\ Done(id, "scanNext", scanNext(Pool, heap[id]))

DeleteRecord(id) ==
    /\ Usable(id, {"HeapFileScan"})
    /\ LET r == deleteRecord(Pool, heap[id]) IN
       IF r.nullDeref
       THEN /\ fault' = "crash"
            /\ UNCHANGED <<numBufs, bufTable, bufPool, hashTable, clockHand, disk,
                           alive, last, heap>>
       ELSE Done(id, "deleteRecord", r)

GetRecord(id, rid) ==
    /\ Usable(id, {"HeapFileScan", "InsertFileScan"})
    /\ <<filePtr, rid.pageNo>> \in DOMAIN disk
    /\ rid.slotNo \in LiveSlots(PageNow(Pool, rid.pageNo))
    /\ Done(id, "getRecord", getRecord(Pool, heap[id], rid))

HeapNext ==
    \/ \E id \in ScanIds : OpenScan(id)
    \/ \E id \in InsertIds : OpenInsert(id)
    \/ \E id \in HeapIds : Close(id)
    \/ \E id \in HeapIds, length \in {MaxRecLen, MaxRecLen + 1} : InsertRecord(id, length)
    \/ \E id \in HeapIds : ScanNext(id)
    \/ \E id \in HeapIds : DeleteRecord(id)
    \/ \E id \in InsertIds, rid \in Rids : GetRecord(id, rid)

HeapSpec == HeapInit /\ [][HeapNext]_vars

\* live records on the pages from pageNo on, following next-page pointers
RECURSIVE LiveFrom(_, _, _)
LiveFrom(bm, pageNo, n) ==
    IF pageNo = -1 \/ n = 0
    THEN 0
    ELSE Cardinality(LiveSlots(PageNow(bm, pageNo)))
            + LiveFrom(bm, PageNow(bm, pageNo).nextPage, n - 1)

\* C10: after every successful insertRecord and deleteRecord, recCnt of the
\* header page equals the number of live records on the data pages reachable
\* from firstPage.
C10_HeaderTruth ==
    (/\ Running
     /\ last.op \in {"insertRecord", "deleteRecord"}
     /\ last.status = "OK")
    => PageNow(Pool, File_getFirstPage).recCnt
          = LiveFrom(Pool, PageNow(Pool, File_getFirstPage).firstPage, MaxHeapPages)

\* the data pages of the heap file: the pages allocPage gave to createHeapFile
\* or insertRecord, which Page::init made data pages
DataPages(bm) ==
    {p \in 1 .. MaxHeapPages :
        /\ <<filePtr, p>> \in DOMAIN bm.disk
        /\ p # File_getFirstPage
        /\ PageNow(bm, p).curPage = p}

\* the pages met from pageNo on by following next-page pointers, at most n of them
RECURSIVE PageList(_, _, _)
PageList(bm, pageNo, n) ==
    IF pageNo = -1 \/ n = 0 \/ <<filePtr, pageNo>> \notin DOMAIN bm.disk
    THEN <<>>
    ELSE <<pageNo>> \o PageList(bm, PageNow(bm, pageNo).nextPage, n - 1)

ListOf(bm) == PageList(bm, PageNow(bm, File_getFirstPage).firstPage, MaxHeapPages + 1)

\* C11: following next-page pointers from firstPage visits every data page
\* allocated to the file exactly once and ends at lastPage, whose next-page
\* pointer is -1.
C11_ListIntegrity ==
    Running =>
       /\ Len(ListOf(Pool)) = Cardinality(DataPages(Pool))
       /\ {ListOf(Pool)[i] : i \in 1 .. Len(ListOf(Pool))} = DataPages(Pool)
       /\ ListOf(Pool)[Len(ListOf(Pool))] = PageNow(Pool, File_getFirstPage).lastPage
       /\ PageNow(Pool, PageNow(Pool, File_getFirstPage).lastPage).nextPage = -1

(***************************************************************************)
(* Two InsertFileScan objects of a client on one heap file                 *)
(***************************************************************************)
\* the client of the insert interface is linked with one of the two variants
Insert_Open(id) ==
    /\ NoneOf(KindsV2)
    /\ OpenInsert(id)

InsertV2_Open(id) ==
    /\ Running
    /\ heap[id].kind = "none"
    /\ NoneOf(Kinds4)
    /\ Done(id, "InsertFileScan", InsertFileScan_v2(Pool))

InsertV2_Close(id) ==
    /\ Running
    /\ heap[id].kind = "InsertFileScan_v2"
    /\ Done(id, "~HeapFile", InsertFileScanDtor_v2(Pool, heap[id]))

InsertV2_insertRecord(id, length, garbage) ==
    /\ Usable(id, {"InsertFileScan_v2"})
    /\ Done(id, "insertRecord",
            insertRecord_v2(Pool, heap[id], [data |-> 1, length |-> length], garbage))

\* the lengths of the records the client inserts
InsertLengths == {1, MaxRecLen, MaxRecLen + 1}

InsertNext ==
    \/ \E id \in HeapIds : Insert_Open(id)
    \/ \E id \in HeapIds : Close(id)
    \/ \E id \in HeapIds, length \in InsertLengths : InsertRecord(id, length)
    \/ \E id \in HeapIds : InsertV2_Open(id)
    \/ \E id \in HeapIds : InsertV2_Close(id)
    \/ \E id \in HeapIds, length \in InsertLengths, garbage \in NoReturn :
          InsertV2_insertRecord(id, length, garbage)

InsertSpec == HeapInit /\ [][InsertNext]_vars

\* calls of scanNext a scan of the whole file can take
MaxScan == PageCap * MaxHeapPages + 1

\* scanNext called until it returns something other than OK, at most n times:
\* the RIDs it returned and the status it ended with
RECURSIVE ScanAll(_, _)

ScanAll_cons(r, rest) ==
    [rids |-> <<r.rid>> \o rest.rids, status |-> rest.status, bm |-> rest.bm,
     h |-> rest.h]

ScanAll_step(r, n) ==
    IF r.status = "OK" /\ n > 0
    THEN ScanAll_cons(r, ScanAll(r, n - 1))
    ELSE [rids |-> <<>>, status |-> r.status, bm |-> r.bm, h |-> r.h]

ScanAll(r, n) == ScanAll_step(scanNext(r.bm, r.h), n)

\* a new HeapFileScan run from its start
FullScan(bm) ==
    IF HeapFileScan(bm).status = "OK"
    THEN ScanAll(HeapFileScan(bm), MaxScan)
    ELSE [rids |-> <<>>, status |-> HeapFileScan(bm).status,
          bm |-> HeapFileScan(bm).bm, h |-> HeapFileScan(bm).h]

\* the RIDs of the records in the slots S of page pageNo, in slot order
RECURSIVE RidsOnPage(_, _)
RidsOnPage(pageNo, S) ==
    IF S = {}
    THEN <<>>
    ELSE <<[pageNo |-> pageNo, slotNo |-> MinOf(S)]>>
            \o RidsOnPage(pageNo, S \ {MinOf(S)})

\* the RIDs of the records on the pages of the sequence pages, from its i-th on
RECURSIVE RidsOnPages(_, _, _)
RidsOnPages(bm, pages, i) ==
    IF i > Len(pages)
    THEN <<>>
    ELSE RidsOnPage(pages[i], LiveSlots(PageNow(bm, pages[i])))
            \o RidsOnPages(bm, pages, i + 1)

\* the RIDs of the records of the file: inserted and not deleted
LiveRids(bm) ==
    {rid \in Rids : /\ rid.pageNo \in DataPages(bm)
                    /\ rid.slotNo \in LiveSlots(PageNow(bm, rid.pageNo))}

SeqRange(q) == {q[i] : i \in 1 .. Len(q)}

\* C12: an unfiltered HeapFileScan run from its start to FILEEOF returns the
\* RID of every inserted, undeleted record exactly once, in page-list order
\* and slot order within a page, and no other RID.
C12_InsertScanRoundTrip ==
    (Running /\ FullScan(Pool).status = "FILEEOF")
    => /\ SeqRange(FullScan(Pool).rids) = LiveRids(Pool)
       /\ Len(FullScan(Pool).rids) = Cardinality(LiveRids(Pool))
       /\ FullScan(Pool).rids = RidsOnPages(Pool, ListOf(Pool), 1)

(***************************************************************************)
(* A HeapFileScan of a client on a heap file that holds records, next to   *)
(* an InsertFileScan the client holds open                                 *)
(***************************************************************************)
\* the record that gets the RID (pageNo, slotNo) when it is inserted
RecAt(pageNo, slotNo, length) == [data |-> 10 * pageNo + slotNo, length |-> length]

\* records of length 1: they fill data page 2 and go on to page 3
ShortRecs ==
    [i \in 1 .. (PageCap + 1) |->
        IF i <= PageCap THEN RecAt(2, i - 1, 1) ELSE RecAt(3, 0, 1)]

\* records of length MaxRecLen: one on each data page
LongRecs == [i \in 1 .. (MaxHeapPages - 1) |-> RecAt(i + 1, 0, MaxRecLen)]

\* the records the files of the client hold
Populations == {<<>>, ShortRecs, LongRecs}

\* insertRecord of recs[i], recs[i + 1], ... through the InsertFileScan r.h
RECURSIVE InsertAll(_, _, _)
InsertAll(r, recs, i) ==
    IF i > Len(recs) \/ r.status # "OK"
    THEN r
    ELSE InsertAll(insertRecord(r.bm, r.h, recs[i]), recs, i + 1)

Populated_closed(r) == InsertFileScanDtor(r.bm, r.h)

\* the pool after createHeapFile, the inserts of recs through an
\* InsertFileScan and its destruction
Populated(recs) ==
    Populated_closed(
        InsertAll(InsertFileScan(createHeapFile(BufMgr(HeapBufs) @@ [disk |-> <<>>]).bm),
                  recs, 1)).bm

ScanInit ==
    /\ \E recs \in Populations : Start(Populated(recs))
    /\ alive = TRUE
    /\ fault = "none"
    /\ last = Call("~InsertFileScan", filePtr, -1, FALSE, "OK", {})
    /\ heap = [id \in HeapIds |-> NoHeapFile]

\* what the members HeapFileScan::HeapFileScan leaves uninitialized can hold
Garbage ==
    {[markedPageNo |-> -1, markedRec |-> NULLRID],
     [markedPageNo |-> 2, markedRec |-> [pageNo |-> 2, slotNo |-> 0]]}

HeapFileScan_uninit(r, g) ==
    [r EXCEPT !.h.markedPageNo = g.markedPageNo, !.h.markedRec = g.markedRec]

\* the parameters the client passes to startScan
ScanParms ==
    [offset : {-1, 0}, length : {0, 1, 2}, type : {"STRING", "INTEGER", "FLOAT", "OTHER"},
     filter : {NullFilter, Filter(21)}, op : {"LT", "GTE", "OTHER"}]

\* the calls of startScan the client makes: without a filter, with a filter,
\* with a filter and a negative offset
ScanCalls ==
    {[offset |-> 0, length |-> 0, type |-> "STRING", filter |-> NullFilter, op |-> "EQ"],
     [offset |-> 0, length |-> sizeofInt, type |-> "INTEGER", filter |-> Filter(21),
      op |-> "GTE"],
     [offset |-> -1, length |-> sizeofInt, type |-> "INTEGER", filter |-> Filter(21),
      op |-> "GTE"]}

\* a call on the object id returns r; the calls of this client are not
\* recorded in last
Step(id, r) ==
    /\ Install(r.bm)
    /\ heap' = [heap EXCEPT ![id] = r.h]
    /\ UNCHANGED <<alive, fault, last>>

Scan_Open(id, g) ==
    /\ Running
    /\ heap[id].kind = "none"
    /\ NoneOf(KindsV2)
    /\ Step(id, HeapFileScan_uninit(HeapFileScan(Pool), g))

Scan_OpenInsert(id) ==
    /\ Running
    /\ heap[id].kind = "none"
    /\ NoneOf(KindsV2)
    /\ Step(id, InsertFileScan(Pool))

Scan_Close(id) ==
    /\ Running
    /\ heap[id].kind \in Kinds4
    /\ Step(id, IF heap[id].kind = "InsertFileScan"
                THEN InsertFileScanDtor(Pool, heap[id])
                ELSE HeapFileScanDtor(Pool, heap[id]))

Scan_startScan(id, a) ==
    /\ Usable(id, {"HeapFileScan"})
    /\ Step(id, startScan(Pool, heap[id], a.offset, a.length, a.type, a.filter, a.op))

Scan_scanNext(id) ==
    /\ Usable(id, {"HeapFileScan"})
    /\ Step(id, scanNext(Pool, heap[id]))

Scan_markScan(id) ==
    /\ Usable(id, {"HeapFileScan"})
    /\ Step(id, markScan(Pool, heap[id]))

Scan_resetScan(id) ==
    /\ Usable(id, {"HeapFileScan"})
    /\ Step(id, resetScan(Pool, heap[id]))

Scan_endScan(id) ==
    /\ Usable(id, {"HeapFileScan"})
    /\ Step(id, endScan(Pool, heap[id]))

Scan_getRecord(id, rid) ==
    /\ Usable(id, {"HeapFileScan"})
    /\ rid \in LiveRids(Pool)
    /\ Step(id, getRecord(Pool, heap[id], rid))

Scan_getCurrent(id) ==
    /\ Usable(id, {"HeapFileScan"})
    /\ Step(id, HeapFileScan_getRecord(Pool, heap[id]))

ScanV2_Open(id) ==
    /\ Running
    /\ heap[id].kind = "none"
    /\ NoneOf(Kinds4)
    /\ Step(id, HeapFileScan_v2(Pool))

ScanV2_OpenInsert(id) ==
    /\ Running
    /\ heap[id].kind = "none"
    /\ NoneOf(Kinds4)
    /\ Step(id, InsertFileScan_v2(Pool))

ScanV2_Close(id) ==
    /\ Running
    /\ heap[id].kind \in KindsV2
    /\ Step(id, IF heap[id].kind = "InsertFileScan_v2"
                THEN InsertFileScanDtor_v2(Pool, heap[id])
                ELSE HeapFileScanDtor_v2(Pool, heap[id]))

ScanV2_startScan(id, a) ==
    /\ Usable(id, {"HeapFileScan_v2"})
    /\ Step(id, startScan_v2(Pool, heap[id], a.offset, a.length, a.type, a.filter,
                             a.op))

ScanV2_scanNext(id) ==
    /\ Usable(id, {"HeapFileScan_v2"})
    /\ Step(id, scanNext_v2(Pool, heap[id]))

ScanV2_markScan(id) ==
    /\ Usable(id, {"HeapFileScan_v2"})
    /\ Step(id, markScan_v2(Pool, heap[id]))

ScanV2_resetScan(id) ==
    /\ Usable(id, {"HeapFileScan_v2"})
    /\ Step(id, resetScan_v2(Pool, heap[id]))

ScanV2_endScan(id) ==
    /\ Usable(id, {"HeapFileScan_v2"})
    /\ Step(id, endScan_v2(Pool, heap[id]))

ScanV2_getRecord(id, rid) ==
    /\ Usable(id, {"HeapFileScan_v2"})
    /\ rid \in LiveRids(Pool)
    /\ Step(id, getRecord_v2(Pool, heap[id], rid))

ScanV2_getCurrent(id) ==
    /\ Usable(id, {"HeapFileScan_v2"})
    /\ Step(id, HeapFileScan_getRecord_v2(Pool, heap[id]))

ScanNextStep ==
    \/ \E id \in ScanIds, g \in Garbage : Scan_Open(id, g)
    \/ \E id \in InsertIds : Scan_OpenInsert(id)
    \/ \E id \in HeapIds : Scan_Close(id)
    \/ \E id \in ScanIds, a \in ScanCalls : Scan_startScan(id, a)
    \/ \E id \in ScanIds : Scan_scanNext(id)
    \/ \E id \in ScanIds : Scan_markScan(id)
    \/ \E id \in ScanIds : Scan_resetScan(id)
    \/ \E id \in ScanIds : Scan_endScan(id)
    \/ \E id \in ScanIds, rid \in Rids : Scan_getRecord(id, rid)
    \/ \E id \in ScanIds : Scan_getCurrent(id)
    \/ \E id \in ScanIds : ScanV2_Open(id)
    \/ \E id \in InsertIds : ScanV2_OpenInsert(id)
    \/ \E id \in HeapIds : ScanV2_Close(id)
    \/ \E id \in ScanIds, a \in ScanCalls : ScanV2_startScan(id, a)
    \/ \E id \in ScanIds : ScanV2_scanNext(id)
    \/ \E id \in ScanIds : ScanV2_markScan(id)
    \/ \E id \in ScanIds : ScanV2_resetScan(id)
    \/ \E id \in ScanIds : ScanV2_endScan(id)
    \/ \E id \in ScanIds, rid \in Rids : ScanV2_getRecord(id, rid)
    \/ \E id \in ScanIds : ScanV2_getCurrent(id)

ScanSpec == ScanInit /\ [][ScanNextStep]_vars

(***************************************************************************)
(* Claims about the scan interface                                         *)
(***************************************************************************)

\* getRecord(rid) of the variant the object h belongs to
GetRecordOf(bm, h, rid) ==
    IF h.kind \in KindsV2 THEN getRecord_v2(bm, h, rid) ELSE getRecord(bm, h, rid)

\* the objects of the client whose construction succeeded
Handles == {id \in HeapIds : Usable(id, Kinds4 \cup KindsV2)}

\* C13: for every RID a successful insertRecord returned and whose record
\* was not deleted, getRecord(rid) on any handle of the file returns OK
\* with exactly the bytes and the length that were inserted
C13_GetRecordReturnsInserted ==
    \A id \in Handles :
        \A rid \in LiveRids(Pool) :
            /\ GetRecordOf(Pool, heap[id], rid).status = "OK"
            /\ GetRecordOf(Pool, heap[id], rid).rec
                   = PageNow(Pool, rid.pageNo).slot[rid.slotNo]
            /\ GetRecordOf(Pool, heap[id], rid).rec.data
                   = 10 * rid.pageNo + rid.slotNo

\* the destructor of the object h
DtorOf(bm, h) ==
    IF h.kind = "none"
    THEN Ret("OK", bm, h)
    ELSE IF h.kind = "InsertFileScan"
    THEN InsertFileScanDtor(bm, h)
    ELSE HeapFileScanDtor(bm, h)

\* the pool after the destruction of every heap file instance
ClosedAll(bm) == DtorOf(DtorOf(bm, heap[1]).bm, heap[2]).bm

\* the pool once flushFile has written and freed the frames of the file,
\* when no frame of the file is pinned any more
FlushedWhenUnpinned(bm) ==
    IF flushFile(bm, filePtr, {}).status = "OK" THEN flushFile(bm, filePtr, {}).bm ELSE bm

\* the records a full scan returns, with their RIDs
ScanRecords(scan) ==
    {<<scan.rids[i], PageNow(scan.bm, scan.rids[i].pageNo).slot[scan.rids[i].slotNo]>> :
        i \in 1 .. Len(scan.rids)}

\* the new instance r shows the header hdr
ReopenedShows_hdr(r, hdr) ==
    /\ r.status = "OK"
    /\ Hdr(r.bm, r.h).recCnt = hdr.recCnt
    /\ Hdr(r.bm, r.h).firstPage = hdr.firstPage
    /\ Hdr(r.bm, r.h).lastPage = hdr.lastPage

\* the full scan scan ran to FILEEOF and yielded the records records
ReopenedShows_scan(scan, records) ==
    /\ scan.status = "FILEEOF"
    /\ ScanRecords(scan) = records

\* the header a new instance on pool bm shows is the header hdr, and its
\* full scan yields the records records
ReopenedShows(bm, hdr, records) ==
    /\ ReopenedShows_hdr(HeapFileScan(bm), hdr)
    /\ ReopenedShows_scan(FullScan(bm), records)

\* the round trip from pool bm, whose full scan is scan
PersistenceRoundTrip(bm, closed, scan) ==
    scan.status = "FILEEOF"
    => /\ ReopenedShows(closed, PageNow(bm, File_getFirstPage), ScanRecords(scan))
       /\ ReopenedShows(FlushedWhenUnpinned(closed), PageNow(bm, File_getFirstPage),
                        ScanRecords(scan))

\* the file has been created and its frames flushed out of the pool: the
\* header and the first data page are on disk only
PersistInit ==
    /\ Start(FlushedWhenUnpinned(createHeapFile(BufMgr(HeapBufs) @@ [disk |-> <<>>]).bm))
    /\ alive = TRUE
    /\ fault = "none"
    /\ last = Call("flushFile", filePtr, -1, FALSE, "OK", {})
    /\ heap = [id \in HeapIds |-> NoHeapFile]

PersistSpec == PersistInit /\ [][HeapNext]_vars

\* C14: after any inserts and deletes through heap file instances and the
\* destruction of the instances, a reopened instance shows the recCnt,
\* firstPage and lastPage the header had before closing, and its full scan
\* yields the records a full scan yielded before closing; the same holds
\* once the frames of the file have been flushed out of the pool
C14_PersistenceRoundTrip ==
    Running => PersistenceRoundTrip(Pool, ClosedAll(Pool), FullScan(Pool))

\* C14 witness: with an InsertFileScan open whose insert changed the header,
\* a record has just been deleted through a scan and a full scan still
\* yields a record
C14_Witness ==
    /\ Running
    /\ last.op = "deleteRecord"
    /\ last.status = "OK"
    /\ \E id \in HeapIds : heap[id].kind = "InsertFileScan" /\ heap[id].hdrDirtyFlag
    /\ FullScan(Pool).status = "FILEEOF"
    /\ Len(FullScan(Pool).rids) >= 1
    /\ PageNow(Pool, File_getFirstPage).lastPage # PageNow(Pool, File_getFirstPage).firstPage

(***************************************************************************)
(* Claims about the insert interface                                       *)
(***************************************************************************)

\* insertRecord of the variant the object h belongs to; garbage is what a
\* call that ends without a return statement hands back
InsertRecordOf(bm, h, rec, garbage) ==
    IF h.kind \in KindsV2
    THEN insertRecord_v2(bm, h, rec, garbage)
    ELSE insertRecord(bm, h, rec)

\* the call r of insertRecord(rec) on the object h in pool bm did nothing
\* but return INVALIDRECLEN
RejectedUntouched(bm, h, r) ==
    /\ r.status = "INVALIDRECLEN"
    /\ r.bm = bm
    /\ r.h = h

\* the call r of insertRecord(rec) on the object h in pool bm was not
\* turned down for its length, and when it returned OK the record is in the
\* file at the RID it returned and is counted in the header
Inserted(bm, h, rec, r) ==
    /\ r.status # "INVALIDRECLEN"
    /\ r.status = "OK"
       => /\ r.rid \in Rids
          /\ r.h.curPageNo = r.rid.pageNo
          /\ r.bm.bufPool[r.h.curPage].slot[r.rid.slotNo] = rec
          /\ Hdr(r.bm, r.h).recCnt = Hdr(bm, h).recCnt + 1
    /\ r.status # "OK" => Hdr(r.bm, r.h).recCnt = Hdr(bm, h).recCnt

InsertRecordLength(bm, h, rec, r) ==
    IF rec.length > MaxRecLen
    THEN RejectedUntouched(bm, h, r)
    ELSE Inserted(bm, h, rec, r)

\* C15: insertRecord of a record longer than PAGESIZE - DPFIXED returns
\* INVALIDRECLEN and changes neither the pool nor the object; a record
\* within the limit is never turned down with INVALIDRECLEN, and a call
\* that returns OK has stored it
C15_InsertRecordLength ==
    \A id \in HeapIds :
        Usable(id, {"InsertFileScan", "InsertFileScan_v2"})
        => \A length \in InsertLengths, garbage \in NoReturn :
              InsertRecordLength(Pool, heap[id], [data |-> 7, length |-> length],
                  InsertRecordOf(Pool, heap[id], [data |-> 7, length |-> length],
                                 garbage))

\* startScan of the variant the object h belongs to, with the parameters a
StartScanOf(bm, h, a) ==
    IF h.kind \in KindsV2
    THEN startScan_v2(bm, h, a.offset, a.length, a.type, a.filter, a.op)
    ELSE startScan(bm, h, a.offset, a.length, a.type, a.filter, a.op)

\* the parameter combinations that are invalid with a filter
InvalidScanParms(a) ==
    \/ a.offset < 0
    \/ a.length < 1
    \/ a.type \notin {"STRING", "INTEGER", "FLOAT"}
    \/ a.type = "INTEGER" /\ a.length # sizeofInt
    \/ a.type = "FLOAT" /\ a.length # sizeofFloat
    \/ a.op \notin {"LT", "LTE", "EQ", "GTE", "GT", "NE"}

\* the scan objects of the client whose construction succeeded
Scanners == {id \in HeapIds : Usable(id, {"HeapFileScan", "HeapFileScan_v2"})}

\* the call r of startScan(a) on the object h in pool bm
StartScanChecked(bm, h, a, r) ==
    /\ (~a.filter.null /\ InvalidScanParms(a))
       => /\ r.status = "BADSCANPARM"
          /\ r.bm = bm
          /\ r.h = h
    /\ a.filter.null => r.status = "OK"

\* C16: startScan with a filter and an invalid parameter combination returns
\* BADSCANPARM and leaves the scan object and the pool as they were; with a
\* null filter it returns OK whatever the other parameters are
C16_StartScanParms ==
    \A id \in Scanners :
        \A a \in ScanParms :
            StartScanChecked(Pool, heap[id], a, StartScanOf(Pool, heap[id], a))

(***************************************************************************)
(* A scan under buffer pressure: another client of the buffer manager pins *)
(* pages of a file of its own                                              *)
(***************************************************************************)
\* the file of the other client and its pages
OtherFile == 2

OtherPages == {1, 2}

PressureInit ==
    /\ \E recs \in Populations :
          Start([Populated(recs) EXCEPT
                    !.disk = @ @@ Provider({OtherFile} \X OtherPages).disk])
    /\ alive = TRUE
    /\ fault = "none"
    /\ last = Call("~InsertFileScan", filePtr, -1, FALSE, "OK", {})
    /\ heap = [id \in HeapIds |-> NoHeapFile]

\* the other client reads a page it has not pinned
Other_readPage(PageNo) ==
    /\ Running
    /\ \A i \in Frames(Pool) : Holds(Pool, i, OtherFile, PageNo) => bufTable[i].pinCnt = 0
    /\ Install(readPage(Pool, OtherFile, PageNo, TRUE, TRUE).bm)
    /\ UNCHANGED <<alive, fault, last, heap>>

\* the other client unpins a page it has pinned
Other_unPinPage(PageNo) ==
    /\ Running
    /\ \E i \in Frames(Pool) : Holds(Pool, i, OtherFile, PageNo) /\ bufTable[i].pinCnt > 0
    /\ Install(unPinPage(Pool, OtherFile, PageNo, FALSE).bm)
    /\ UNCHANGED <<alive, fault, last, heap>>

PressureNext ==
    \/ \E id \in ScanIds, g \in Garbage : Scan_Open(id, g)
    \/ \E id \in ScanIds : Scan_Close(id)
    \/ \E id \in ScanIds, a \in ScanCalls : Scan_startScan(id, a)
    \/ \E id \in ScanIds : Scan_scanNext(id)
    \/ \E id \in ScanIds : Scan_endScan(id)
    \/ \E id \in ScanIds : ScanV2_Open(id)
    \/ \E id \in ScanIds : ScanV2_Close(id)
    \/ \E id \in ScanIds, a \in ScanCalls : ScanV2_startScan(id, a)
    \/ \E id \in ScanIds : ScanV2_scanNext(id)
    \/ \E id \in ScanIds : ScanV2_endScan(id)
    \/ \E PageNo \in OtherPages : Other_readPage(PageNo)
    \/ \E PageNo \in OtherPages : Other_unPinPage(PageNo)

PressureSpec == PressureInit /\ [][PressureNext]_vars

\* the call r of startScan(a) on the object h in pool bm, when a null filter
\* only rules out BADSCANPARM
StartScanCheckedButReset(bm, h, a, r) ==
    /\ (~a.filter.null /\ InvalidScanParms(a))
       => /\ r.status = "BADSCANPARM"
          /\ r.bm = bm
          /\ r.h = h
    /\ a.filter.null
       => /\ r.status # "BADSCANPARM"
          /\ r.h.filter = NullFilter
          /\ r.status = StartScanOf(bm, h, [a EXCEPT !.offset = 0, !.length = 0,
                                                     !.type = "STRING", !.op = "EQ"]).status
          /\ r.status # "OK"
             => r.status \in {"BUFFEREXCEEDED", "HASHNOTFOUND", "PAGENOTPINNED", "UNIXERR",
                              "BADPAGENO", "HASHTBLERROR"}

\* C16 amended: as C16 for a filter with invalid parameters; with a null
\* filter startScan never returns BADSCANPARM, ignores the other parameters
\* and returns OK unless unpinning the current page or reading the first
\* page fails
C16_StartScanParmsButReset ==
    \A id \in Scanners :
        \A a \in ScanParms :
            StartScanCheckedButReset(Pool, heap[id], a, StartScanOf(Pool, heap[id], a))

\* C16 witness: a scan of the second variant that took a filter is between
\* pages while the other client holds every free frame: a call with a filter
\* and a negative offset is turned down, a call with a null filter fails to
\* read the first page
C16_Witness ==
    \E id \in Scanners :
        /\ heap[id].kind = "HeapFileScan_v2"
        /\ heap[id].filter = Filter(21)
        /\ StartScanOf(Pool, heap[id],
                       [offset |-> -1, length |-> sizeofInt, type |-> "INTEGER",
                        filter |-> Filter(21), op |-> "GTE"]).status = "BADSCANPARM"
        /\ StartScanOf(Pool, heap[id],
                       [offset |-> -1, length |-> 0, type |-> "OTHER",
                        filter |-> NullFilter, op |-> "OTHER"]).status = "BUFFEREXCEEDED"

\* scanNext of the variant the object h belongs to
ScanNextOf(bm, h) ==
    IF h.kind \in KindsV2 THEN scanNext_v2(bm, h) ELSE scanNext(bm, h)

\* the pins on page pageNo of the heap file in pool bm
PinsOn(bm, pageNo) == PinCntOf(bm, filePtr, pageNo)

\* the call r of scanNext on the object h in pool bm gave up the data page
\* the scan had pinned, with its dirty flag, and nothing else
DataPageReleased(bm, h, r) ==
    /\ r.h.curPage = NullPage
    /\ h.curPage # NullPage
       => /\ PinsOn(r.bm, h.curPageNo) = PinsOn(bm, h.curPageNo) - 1
          /\ h.curDirtyFlag => PageFrame(r.bm, h.curPageNo).dirty
    /\ \A p \in 1 .. MaxHeapPages :
          (h.curPage = NullPage \/ p # h.curPageNo) => PinsOn(r.bm, p) = PinsOn(bm, p)

\* C17: when scanNext returns FILEEOF the scan has no data page pinned: the
\* page it was on has been unpinned with curDirtyFlag and the pins on every
\* other page, the header's among them, are as before
C17_EofLeavesNoDataPin ==
    \A id \in Scanners :
        ScanNextOf(Pool, heap[id]).status = "FILEEOF"
        => DataPageReleased(Pool, heap[id], ScanNextOf(Pool, heap[id]))

\* deleteRecord of the variant the object h belongs to
DeleteRecordOf(bm, h) ==
    IF h.kind \in KindsV2 THEN deleteRecord_v2(bm, h) ELSE deleteRecord(bm, h)

\* the object h has page pageNo pinned: its header page or its current page
HeldBy(h, pageNo) ==
    /\ h.kind # "none"
    /\ \/ h.headerPage # NullPage /\ pageNo = h.headerPageNo
       \/ h.curPage # NullPage /\ pageNo = h.curPageNo

\* the pins on page pageNo that are not those of the object other
PinsBut(bm, other, pageNo) ==
    PinsOn(bm, pageNo) - (IF HeldBy(other, pageNo) THEN 1 ELSE 0)

\* the pins on the pages of the file, those of the object other apart, are
\* at most one on the header page and at most one on one data page
ScanPinsBounded(bm, other) ==
    /\ PinsBut(bm, other, File_getFirstPage) <= 1
    /\ \A p \in 2 .. MaxHeapPages : PinsBut(bm, other, p) <= 1
    /\ Cardinality({p \in 2 .. MaxHeapPages : PinsBut(bm, other, p) > 0}) <= 1

\* the call r of scanNext on the object h in pool bm did not need a frame
\* for the next page while it still held the previous one: when it fails
\* with BUFFEREXCEEDED the previous page is unpinned and every frame is
\* pinned by someone
UnpinnedBeforePinned(bm, h, r) ==
    r.status = "BUFFEREXCEEDED"
    => /\ h.curPage # NullPage
          => PinsOn(r.bm, h.curPageNo) = PinsOn(bm, h.curPageNo) - 1
       /\ \A i \in Frames(r.bm) : r.bm.bufTable[i].pinCnt > 0

\* the pins after a deleteRecord d on the scan, and after the scanNext that
\* follows it
BoundedAfterDelete(d, other) ==
    ~d.nullDeref
    => /\ ScanPinsBounded(d.bm, other)
       /\ ScanPinsBounded(ScanNextOf(d.bm, d.h).bm, other)
       /\ UnpinnedBeforePinned(d.bm, d.h, ScanNextOf(d.bm, d.h))

HeaderPinned(bm) ==
    /\ Resident(bm, filePtr, File_getFirstPage)
    /\ PinsOn(bm, File_getFirstPage) >= 1

\* the call r of flushFile on pool bm left the header page pinned in its
\* frame, with the dirty bit it had
FlushKeepsHeader(bm, r) ==
    /\ r.status \in {"PAGEPINNED", "UNIXERR"}
    /\ HeaderPinned(r.bm)
    /\ PageFrame(r.bm, File_getFirstPage) = PageFrame(bm, File_getFirstPage)

\* C19: while a heap file instance whose construction succeeded exists, the
\* header page of the file is resident with pinCnt >= 1; flushFile on the
\* file returns PAGEPINNED, and whether or not a write of another frame
\* fails on its way it leaves the header frame and its dirty bit as they were
C19_HeaderStaysPinned ==
    (Running /\ Handles # {})
    => /\ HeaderPinned(Pool)
       /\ flushFile(Pool, filePtr, {}).status = "PAGEPINNED"
       /\ \A bad \in SUBSET DirtyFrames(Pool) :
             FlushKeepsHeader(Pool, flushFile(Pool, filePtr, bad))

\* C19 witness: a scan is open on the file, the other client has pinned
\* the last free frame and its next readPage fails with BUFFEREXCEEDED; the
\* header frame is dirty and flushFile on the file returns PAGEPINNED
C19_Witness ==
    /\ Running
    /\ Handles # {}
    /\ \A i \in Frames(Pool) : bufTable[i].pinCnt > 0
    /\ \E PageNo \in OtherPages : PinCntOf(Pool, OtherFile, PageNo) > 0
    /\ PageFrame(Pool, File_getFirstPage).dirty
    /\ \E PageNo \in OtherPages :
          readPage(Pool, OtherFile, PageNo, TRUE, TRUE).status = "BUFFEREXCEEDED"
    /\ flushFile(Pool, filePtr, {}).status = "PAGEPINNED"

\* markScan and resetScan of the variant the object h belongs to
MarkScanOf(bm, h) ==
    IF h.kind \in KindsV2 THEN markScan_v2(bm, h) ELSE markScan(bm, h)

ResetScanOf(bm, h) ==
    IF h.kind \in KindsV2 THEN resetScan_v2(bm, h) ELSE resetScan(bm, h)

\* the scan h is positioned on a record: its current page is pinned in the
\* frame curPage and curRec is a record of that page
Positioned(bm, h) ==
    /\ h.curPage # NullPage
    /\ Holds(bm, h.curPage, filePtr, h.curPageNo)
    /\ bm.bufTable[h.curPage].pinCnt > 0
    /\ h.curRec.pageNo = h.curPageNo
    /\ h.curRec.slotNo \in LiveSlots(bm.bufPool[h.curPage])

\* the further scanNext calls between markScan and resetScan
MaxAdvance == PageCap + 2

\* the calls a and b of scanNext returned the same
SameNext(a, b) ==
    /\ a.status = b.status
    /\ a.status = "OK" => a.rid = b.rid

\* resetScan r on the scan, then scanNext, gives what expected gave
ResetGives(r, expected) ==
    /\ r.status = "OK"
    /\ SameNext(ScanNextOf(r.bm, r.h), expected)

\* after each of 0 .. k further scanNext calls on the scan cur, resetScan
\* followed by scanNext gives what expected gave
RECURSIVE ResetRoundTrip(_, _, _)
ResetRoundTrip(cur, expected, k) ==
    /\ ResetGives(ResetScanOf(cur.bm, cur.h), expected)
    /\ k > 0 => ResetRoundTrip(ScanNextOf(cur.bm, cur.h), expected, k - 1)

\* the round trip from the markScan m
MarkResetRoundTrip(m) ==
    /\ m.status = "OK"
    /\ ResetRoundTrip(m, ScanNextOf(m.bm, m.h), MaxAdvance)

\* C20: when markScan is called with the scan positioned on a record, then
\* after any number of further scanNext calls resetScan followed by scanNext
\* returns what scanNext would have returned right after the markScan
C20_MarkResetRoundTrip ==
    \A id \in Scanners :
        Positioned(Pool, heap[id]) => MarkResetRoundTrip(MarkScanOf(Pool, heap[id]))

\* the scan r after k further scanNext calls
RECURSIVE Advanced(_, _)
Advanced(r, k) == IF k = 0 THEN r ELSE Advanced(ScanNextOf(r.bm, r.h), k - 1)

\* C20 witness: the scan is on the first of the two records of page 2 and a
\* record follows on page 3; after markScan, one scanNext stays on page 2,
\* two cross to page 3, three reach FILEEOF, and resetScan followed by
\* scanNext then returns the second record of page 2
C20_Witness ==
    \E id \in Scanners :
        /\ Positioned(Pool, heap[id])
        /\ heap[id].curRec = [pageNo |-> 2, slotNo |-> 0]
        /\ Advanced(MarkScanOf(Pool, heap[id]), 1).h.curRec = [pageNo |-> 2, slotNo |-> 1]
        /\ Advanced(MarkScanOf(Pool, heap[id]), 2).h.curRec = [pageNo |-> 3, slotNo |-> 0]
        /\ Advanced(MarkScanOf(Pool, heap[id]), 3).status = "FILEEOF"
        /\ ResetGives(ResetScanOf(Advanced(MarkScanOf(Pool, heap[id]), 3).bm,
                                  Advanced(MarkScanOf(Pool, heap[id]), 3).h),
                      RetRid("OK", Pool, heap[id], [pageNo |-> 2, slotNo |-> 1]))

(***************************************************************************)
(* A client that scans a file of integer records with filters              *)
(***************************************************************************)
\* records whose integer field takes the extreme values of int; the second is
\* two units long, the others one
IntRecs ==
    <<[data |-> IntMin, length |-> 1], [data |-> IntMax, length |-> MaxRecLen],
      [data |-> 0, length |-> 1]>>

\* the filtered scans the client starts: an integer field at offset 0 or 1
\* compared with -1 or 1, and the scan without a filter
FilterCalls ==
    [offset : {0, 1}, length : {sizeofInt}, type : {"INTEGER"},
     filter : {FilterOn(v, ub) : v \in {-1, 1}, ub \in {IntMin, IntMax}},
     op : {"LT", "LTE", "EQ", "GTE", "GT", "NE"}]
        \cup {[offset |-> 0, length |-> 0, type |-> "STRING", filter |-> NullFilter,
               op |-> "EQ"]}

FilterInit ==
    /\ Start(Populated(IntRecs))
    /\ alive = TRUE
    /\ fault = "none"
    /\ last = Call("~InsertFileScan", filePtr, -1, FALSE, "OK", {})
    /\ heap = [id \in HeapIds |-> NoHeapFile]

FilterNext ==
    \/ \E id \in ScanIds, g \in Garbage : Scan_Open(id, g)
    \/ \E id \in HeapIds : Scan_Close(id)
    \/ \E id \in ScanIds, a \in FilterCalls : Scan_startScan(id, a)
    \/ \E id \in ScanIds : Scan_scanNext(id)
    \/ \E id \in ScanIds : ScanV2_Open(id)
    \/ \E id \in HeapIds : ScanV2_Close(id)
    \/ \E id \in ScanIds, a \in FilterCalls : ScanV2_startScan(id, a)
    \/ \E id \in ScanIds : ScanV2_scanNext(id)

FilterSpec == FilterInit /\ [][FilterNext]_vars

\* scanNext on the scan r.h until it returns something other than OK, at most
\* n times: the RIDs returned and the final status
RECURSIVE ScanRids(_, _)

ScanRids_step(r, n) ==
    IF r.status = "OK" /\ n > 0
    THEN [rids |-> {r.rid} \cup ScanRids(r, n - 1).rids,
          status |-> ScanRids(r, n - 1).status]
    ELSE [rids |-> {}, status |-> r.status]

ScanRids(r, n) == ScanRids_step(ScanNextOf(r.bm, r.h), n)

\* a new scan of the given kind, started with the parameters a and run on
FilteredScan_started(s) ==
    IF s.status = "OK" THEN ScanRids(s, MaxScan) ELSE [rids |-> {}, status |-> s.status]

FilteredScan_opened(o, a) ==
    IF o.status = "OK"
    THEN FilteredScan_started(StartScanOf(o.bm, o.h, a))
    ELSE [rids |-> {}, status |-> o.status]

FilteredScan(bm, kind, a) ==
    FilteredScan_opened(IF kind = "HeapFileScan_v2" THEN HeapFileScan_v2(bm)
                        ELSE HeapFileScan(bm), a)

\* the relation op between the field value and the filter value
Related(op, attr, fltr) ==
    CASE op = "LT" -> attr < fltr
      [] op = "LTE" -> attr <= fltr
      [] op = "EQ" -> attr = fltr
      [] op = "GTE" -> attr >= fltr
      [] op = "GT" -> attr > fltr
      [] op = "NE" -> attr # fltr

\* the records a scan started with a is to return
Qualifying(bm, a) ==
    {rid \in LiveRids(bm) :
        \/ a.filter.null
        \/ /\ a.offset + a.length - 1 < PageNow(bm, rid.pageNo).slot[rid.slotNo].length
           /\ Related(a.op, PageNow(bm, rid.pageNo).slot[rid.slotNo].data,
                      a.filter.value)}

FilteredScanExact(bm, kind, a) ==
    FilteredScan(bm, kind, a).status = "FILEEOF"
        => FilteredScan(bm, kind, a).rids = Qualifying(bm, a)

\* C21: a scan started with a valid filter returns, up to FILEEOF, exactly the
\* RIDs of the records whose field at [offset, offset + length) stands in
\* the relation op to the filter value; a record too short to hold the field
\* is never returned, and a scan without a filter returns every record.
C21_FilteredScan ==
    Running => \A a \in FilterCalls, kind \in {"HeapFileScan", "HeapFileScan_v2"} :
                    FilteredScanExact(Pool, kind, a)

(***************************************************************************)
(* createHeapFile in a pool another client uses                            *)
(***************************************************************************)
\* createHeapFile of the second variant from its second allocPage on
createHeapFile_v2_unpinned(u1, hdrPageNo) ==
    IF u1.status # "OK"
    THEN [status |-> u1.status, bm |-> unPinPage(u1.bm, filePtr, hdrPageNo, TRUE).bm]
    ELSE [status |-> unPinPage(u1.bm, filePtr, hdrPageNo, TRUE).status,
          bm |-> unPinPage(u1.bm, filePtr, hdrPageNo, TRUE).bm]

createHeapFile_v2_data(a1, a2) ==
    IF a2.status # "OK"
    THEN [status |-> a2.status, bm |-> unPinPage(a2.bm, filePtr, a1.pageNo, FALSE).bm]
    ELSE createHeapFile_v2_unpinned(
             unPinPage([a2.bm EXCEPT
                           !.bufPool[a2.frame] = Page_init(a2.pageNo),
                           !.bufPool[a1.frame] =
                               [ZeroPage EXCEPT !.firstPage = a2.pageNo,
                                                !.lastPage = a2.pageNo,
                                                !.pageCnt = 2, !.recCnt = 0]],
                       filePtr, a2.pageNo, TRUE),
             a1.pageNo)

createHeapFile_v2_hdr(a1) ==
    IF a1.status # "OK"
    THEN [status |-> a1.status, bm |-> a1.bm]
    ELSE createHeapFile_v2_data(
             a1, allocPage(a1.bm, filePtr, NextPageNo(a1.bm, filePtr), TRUE))

\* createHeapFile of the second variant, for a name that is not empty
createHeapFile_v2(bm) ==
    createHeapFile_v2_hdr(allocPage(bm, filePtr, NextPageNo(bm, filePtr), TRUE))

\* db.openFile finds the file
FileExists(bm) == \E n \in 1 .. MaxHeapPages : <<filePtr, n>> \in DOMAIN bm.disk

CreateInit ==
    /\ Start(BufMgr(HeapBufs) @@ Provider({OtherFile} \X OtherPages))
    /\ alive = TRUE
    /\ fault = "none"
    /\ last = Call("BufMgr", NullFile, -1, FALSE, "OK", {})
    /\ heap = [id \in HeapIds |-> NoHeapFile]

\* createHeapFile for a name that does not exist
Create_createHeapFile ==
    /\ Running
    /\ ~FileExists(Pool)
    /\ Install(createHeapFile(Pool).bm)
    /\ last' = Call("createHeapFile", filePtr, -1, FALSE, createHeapFile(Pool).status, {})
    /\ UNCHANGED <<alive, fault, heap>>

CreateV2_createHeapFile ==
    /\ Running
    /\ ~FileExists(Pool)
    /\ Install(createHeapFile_v2(Pool).bm)
    /\ last' = Call("createHeapFile", filePtr, -1, FALSE, createHeapFile_v2(Pool).status,
                    {})
    /\ UNCHANGED <<alive, fault, heap>>

\* the other client unpins a page it has pinned after writing to it
Other_unPinDirty(PageNo) ==
    /\ Running
    /\ \E i \in Frames(Pool) : Holds(Pool, i, OtherFile, PageNo) /\ bufTable[i].pinCnt > 0
    /\ Install(unPinPage(Pool, OtherFile, PageNo, TRUE).bm)
    /\ UNCHANGED <<alive, fault, last, heap>>

CreateNext ==
    \/ Create_createHeapFile
    \/ CreateV2_createHeapFile
    \/ \E PageNo \in OtherPages : Other_readPage(PageNo)
    \/ \E PageNo \in OtherPages : Other_unPinPage(PageNo)
    \/ \E PageNo \in OtherPages : Other_unPinDirty(PageNo)

CreateSpec == CreateInit /\ [][CreateNext]_vars

\* the file as createHeapFile is to leave it: once the pool is flushed, the
\* provider holds a header page and one other page, which is initialized and
\* empty and is the first and the last data page, with no record counted
CreatedFile_flushed(f) ==
    /\ f.status = "OK"
    /\ {n \in 1 .. MaxHeapPages : <<filePtr, n>> \in DOMAIN f.bm.disk}
          = {File_getFirstPage, f.bm.disk[<<filePtr, File_getFirstPage>>].firstPage}
    /\ f.bm.disk[<<filePtr, File_getFirstPage>>].firstPage # File_getFirstPage
    /\ f.bm.disk[<<filePtr, File_getFirstPage>>].lastPage
          = f.bm.disk[<<filePtr, File_getFirstPage>>].firstPage
    /\ f.bm.disk[<<filePtr, File_getFirstPage>>].recCnt = 0
    /\ f.bm.disk[<<filePtr, f.bm.disk[<<filePtr, File_getFirstPage>>].firstPage>>]
          = Page_init(f.bm.disk[<<filePtr, File_getFirstPage>>].firstPage)

CreatedFile(bm) ==
    /\ \A n \in 1 .. MaxHeapPages : PinCntOf(bm, filePtr, n) = 0
    /\ CreatedFile_flushed(flushFile(bm, filePtr, {}))

\* C22: after createHeapFile returns OK for a name that did not exist, the
\* file has a header page and one distinct, initialized, empty data page,
\* firstPage = lastPage = that page and recCnt = 0; no page of the file is
\* pinned, and both pages were unpinned dirty, so that the provider gets their
\* contents when the pool writes them out.
C22_CreateHeapFile ==
    (Running /\ last.op = "createHeapFile" /\ last.status = "OK") => CreatedFile(Pool)

\* createHeapFile of the second variant returned OK while the other client
\* held a pin; the header page has since been written out and the data page is
\* still in the pool
C22_Witness ==
    /\ Running /\ last.op = "createHeapFile" /\ last.status = "OK"
    /\ \E n \in OtherPages : PinCntOf(Pool, OtherFile, n) > 0
    /\ ~Resident(Pool, filePtr, File_getFirstPage)
    /\ PageNow(Pool, File_getFirstPage).pageCnt = 2
    /\ Resident(Pool, filePtr, PageNow(Pool, File_getFirstPage).firstPage)

EndScanOf(bm, h) ==
    IF h.kind \in KindsV2 THEN endScan_v2(bm, h) ELSE endScan(bm, h)

\* the pool bm but for the descriptor of the frame that holds page pageNo of
\* the file, which has one pin less and is dirty if it was or if dirty is set
UnpinnedOnce(bm, pageNo, dirty) ==
    [bm EXCEPT !.bufTable =
        [i \in DOMAIN bm.bufTable |->
            IF Holds(bm, i, filePtr, pageNo)
            THEN [bm.bufTable[i] EXCEPT !.pinCnt = @ - 1, !.dirty = (@ \/ dirty)]
            ELSE bm.bufTable[i]]]

\* endScan on the scan h gives e: the current page, if there is one and it is
\* pinned, has been unpinned once with curDirtyFlag, and nothing else changed
\* in the pool
EndScanUnpins(bm, h, e) ==
    /\ (h.curPage # NullPage /\ PinCntOf(bm, filePtr, h.curPageNo) > 0)
       => /\ e.status = "OK"
          /\ e.bm = UnpinnedOnce(bm, h.curPageNo, h.curDirtyFlag)
    /\ h.curPage = NullPage => (e.status = "OK" /\ e.bm = bm /\ e.h = h)
    /\ e.h.curPage = NullPage

\* endScan after the endScan that gave e returns OK and changes nothing
EndScanAgain(e, e2) == e2.status = "OK" /\ e2.bm = e.bm /\ e2.h = e.h

EndScanTwice(bm, h) ==
    /\ EndScanUnpins(bm, h, EndScanOf(bm, h))
    /\ EndScanAgain(EndScanOf(bm, h),
                    EndScanOf(EndScanOf(bm, h).bm, EndScanOf(bm, h).h))

LoadOrders ==
    {P \in [1 .. NumBufs -> AllPages] : \A i, j \in 1 .. NumBufs : P[i] = P[j] => i = j}

\* readPage and unPinPage(dirty[k]) of P[k], P[k + 1], ... , P[NumBufs] on bm
RECURSIVE LoadFrom(_, _, _, _)
LoadFrom(bm, P, dirty, k) ==
    IF k > NumBufs
    THEN bm
    ELSE LoadFrom(unPinPage(readPage(bm, P[k][1], P[k][2], TRUE, TRUE).bm,
                            P[k][1], P[k][2], dirty[k]).bm,
                  P, dirty, k + 1)

\* the pool a BufMgr of NumBufs frames is in after the pages P were read and
\* unpinned in their order
Loaded(P, dirty, disk_) == LoadFrom(BufMgr(NumBufs) @@ [disk |-> disk_], P, dirty, 1)

\* the page a miss took the frame of
VictimOf(r) == <<r.alloc.victim.file, r.alloc.victim.pageNo>>

\* the miss on Q evicts P[1]; the miss on Q2 after it evicts P[2], whether the
\* caller still holds Q or has unpinned it
SecondChance_next(m1, P, Q, Q2) ==
    /\ m1.status = "OK" /\ ~m1.hit
    /\ VictimOf(m1) = P[1]
    /\ VictimOf(readPage(m1.bm, Q2[1], Q2[2], TRUE, TRUE)) = P[2]
    /\ VictimOf(readPage(unPinPage(m1.bm, Q[1], Q[2], FALSE).bm, Q2[1], Q2[2],
                         TRUE, TRUE)) = P[2]

SecondChance(bm, P) ==
    \A Q, Q2 \in AllPages \ {P[k] : k \in 1 .. NumBufs} :
        Q # Q2 => SecondChance_next(readPage(bm, Q[1], Q[2], TRUE, TRUE), P, Q, Q2)

\* every frame holds an unpinned page
Filled(bm) == \A i \in Frames(bm) : bm.bufTable[i].valid /\ bm.bufTable[i].pinCnt = 0

\* C24: once the NumBufs frames of an empty pool hold the pages P1 .. Pn, read
\* and unpinned in this order, the next miss evicts P1 and the miss after it
\* evicts P2, not the page just loaded.
C24_ClockSecondChance ==
    Running => \A P \in LoadOrders, dirty \in [1 .. NumBufs -> BOOLEAN] :
                  (Filled(Pool) /\ Pool = Loaded(P, dirty, disk))
                      => SecondChance(Pool, P)

\* the pool has just been filled in some order, its readPage calls being
\* misses, and a miss follows that has a victim
C24_Witness ==
    /\ Running
    /\ \E P \in LoadOrders, dirty \in [1 .. NumBufs -> BOOLEAN] :
          /\ Pool = Loaded(P, dirty, disk)
          /\ dirty[1]
          /\ \E Q \in AllPages : VictimOf(readPage(Pool, Q[1], Q[2], TRUE, TRUE)) = P[1]

\* the pages of the provider that are not in the pool bm
Missing(bm) == {pg \in DOMAIN bm.disk : ~Resident(bm, pg[1], pg[2])}

\* the call r on the pool bm took the frame of a valid page
Evicted(r) == r.status = "OK" /\ r.alloc.victim.valid

\* r, a readPage miss or an allocPage on bm that took the frame r.frame from a
\* victim: the dirty victim was written, once, to its own file and page with
\* the contents the frame had, and the provider holds them now that the frame
\* holds the new page; the clean victim was not written, and no other page of
\* the provider changed but for before, the page allocPage added
WroteVictim(bm, r, before) ==
    /\ r.alloc.victim.dirty
       => /\ r.alloc.writes = {[file |-> r.alloc.victim.file,
                                pageNo |-> r.alloc.victim.pageNo,
                                data |-> bm.bufPool[r.frame]]}
          /\ r.bm.disk[<<r.alloc.victim.file, r.alloc.victim.pageNo>>]
                = bm.bufPool[r.frame]
          /\ \A pg \in DOMAIN before.disk :
                pg # <<r.alloc.victim.file, r.alloc.victim.pageNo>>
                => r.bm.disk[pg] = before.disk[pg]
    /\ ~r.alloc.victim.dirty
       => (r.alloc.writes = {} /\ r.bm.disk = before.disk)

EvictionWrites_read(bm, r) == Evicted(r) => WroteVictim(bm, r, bm)

EvictionWrites_alloc(bm, r) ==
    Evicted(r) => WroteVictim(bm, r, File_allocatePage(bm, OtherFile, r.pageNo).bm)

EvictionWrites(bm) ==
    /\ \A pg \in Missing(bm) :
          EvictionWrites_read(bm, readPage(bm, pg[1], pg[2], TRUE, TRUE))
    /\ EvictionWrites_alloc(bm, allocPage(bm, OtherFile, NextPageNo(bm, OtherFile), TRUE))

\* C25: a readPage miss or an allocPage that evicts a dirty victim has the
\* provider write the victim's page number with the victim's frame contents
\* on the victim's own file before the frame takes the new page; a clean
\* victim causes no write.
C25_WriteBackBeforeReuse == Running => EvictionWrites(Pool)

\* a miss of the other client evicts a dirty data page of the heap file, whose
\* contents differ from what the provider holds, and another miss would evict
\* a clean page
C25_Witness ==
    /\ Running
    /\ \E pg \in Missing(Pool) :
          /\ Evicted(readPage(Pool, pg[1], pg[2], TRUE, TRUE))
          /\ readPage(Pool, pg[1], pg[2], TRUE, TRUE).alloc.victim.dirty
          /\ readPage(Pool, pg[1], pg[2], TRUE, TRUE).alloc.victim.file = filePtr
          /\ Pool.bufPool[readPage(Pool, pg[1], pg[2], TRUE, TRUE).frame]
                # Pool.disk[VictimOf(readPage(Pool, pg[1], pg[2], TRUE, TRUE))]
    /\ Evicted(allocPage(Pool, OtherFile, NextPageNo(Pool, OtherFile), TRUE))

\* allocBuf on bm stopped with a at a dirty victim it could not write: it
\* returns UNIXERR, the victim is the frame under the clock hand and is as it
\* was but for its reference bit (valid, dirty, unpinned, the same page, in
\* the hash table, the same contents), the provider is unchanged, and readPage
\* of the page is a hit on that frame
VictimIntact(bm, a) ==
    /\ a.status = "UNIXERR"
    /\ a.bm.bufTable[a.bm.clockHand] = [bm.bufTable[a.bm.clockHand] EXCEPT !.refbit = FALSE]
    /\ a.bm.bufTable[a.bm.clockHand].valid
    /\ a.bm.bufTable[a.bm.clockHand].dirty
    /\ a.bm.bufTable[a.bm.clockHand].pinCnt = 0
    /\ a.bm.hashTable = bm.hashTable
    /\ a.bm.bufPool = bm.bufPool
    /\ a.bm.disk = bm.disk
    /\ readPage(a.bm, a.bm.bufTable[a.bm.clockHand].file,
                a.bm.bufTable[a.bm.clockHand].pageNo, TRUE, TRUE).hit
    /\ readPage(a.bm, a.bm.bufTable[a.bm.clockHand].file,
                a.bm.bufTable[a.bm.clockHand].pageNo, TRUE, TRUE).frame = a.bm.clockHand

\* C26: when writePage fails while allocBuf writes back a dirty victim,
\* allocBuf returns UNIXERR and leaves the victim frame intact: valid, dirty,
\* unpinned, holding the same page, in the hash table, so that a later
\* readPage of the page is a hit.
C26_FailedWriteKeepsVictim ==
    Running => (allocBuf(Pool, -1, TRUE).writes # {}
                   => VictimIntact(Pool, allocBuf(Pool, -1, FALSE)))

\* the clock has to pass a frame with its reference bit set before it comes
\* to the dirty victim whose write fails
C26_Witness ==
    /\ Running
    /\ allocBuf(Pool, -1, TRUE).writes # {}
    /\ allocBuf(Pool, -1, FALSE).status = "UNIXERR"
    /\ allocBuf(Pool, -1, FALSE).steps > 1
    /\ allocBuf(Pool, -1, FALSE).bm.clockHand # clockHand

\* what readPage or allocPage on bm does once its allocBuf has failed: it
\* returns an error, leaves the pool as allocBuf left it and uses no frame
\* number outside the pool
StopsOnAllocError_read(r) ==
    r.alloc.status # "OK" => (r.status # "OK" /\ r.bm = r.alloc.bm /\ ~r.oob)

StopsOnAllocError_alloc(bm, f, r) ==
    r.alloc.status # "OK"
    => /\ r.status # "OK"
       /\ r.bm = allocBuf(File_allocatePage(bm, f, r.pageNo).bm, -1, FALSE).bm
              \/ r.bm = allocBuf(File_allocatePage(bm, f, r.pageNo).bm, -1, TRUE).bm

StopsOnAllocError(bm) ==
    \A pg \in AllPages, writeOk \in BOOLEAN :
        /\ ~Resident(bm, pg[1], pg[2])
           => StopsOnAllocError_read(readPage(bm, pg[1], pg[2], TRUE, writeOk))
        /\ StopsOnAllocError_alloc(bm, pg[1], allocPage(bm, pg[1], pg[2], writeOk))

\* C27: when allocBuf fails inside a readPage miss or inside allocPage, with
\* BUFFEREXCEEDED, UNIXERR or HASHTBLERROR, the calling operation returns an
\* error and does nothing more: no read of the provider into a frame, no hash
\* insert, no Set, no frame number outside 0 .. numBufs - 1.
C27_AllocBufFailureStops == Running => StopsOnAllocError(Pool)

(***************************************************************************)
(* Claims about the scan position                                          *)
(***************************************************************************)
\* the first RID of the sequence rids that is in the set S, NULLRID if none is
RECURSIVE FirstIn(_, _, _)
FirstIn(rids, S, i) ==
    IF i > Len(rids)
    THEN NULLRID
    ELSE IF rids[i] \in S THEN rids[i] ELSE FirstIn(rids, S, i + 1)

\* the first record of the file, in page-list and slot order, that a scan
\* started with a is to return
FirstMatching(bm, a) == FirstIn(RidsOnPages(bm, ListOf(bm), 1), Qualifying(bm, a), 1)

\* scanNext after the startScan that gave s returns n: the first matching
\* record of the file, or FILEEOF when no record matches
FromTheStart(s, a, n) ==
    /\ n.status = "OK" => n.rid = FirstMatching(s.bm, a)
    /\ n.status = "FILEEOF" => FirstMatching(s.bm, a) = NULLRID

\* the scan is before the first record of firstPage and holds no pin on
\* another data page
AtTheStart(bm, h, s, other) ==
    /\ s.h.curRec = NULLRID
    /\ s.h.curPage # NullPage => s.h.curPageNo = Hdr(s.bm, s.h).firstPage
    /\ \A p \in DataPages(s.bm) \ {Hdr(s.bm, s.h).firstPage} : PinsBut(s.bm, other, p) = 0

StartScanResets(bm, h, a, s, other) ==
    (s.status = "OK" /\ ~(~a.filter.null /\ InvalidScanParms(a)))
    => /\ AtTheStart(bm, h, s, other)
       /\ FromTheStart(s, a, ScanNextOf(s.bm, s.h))

\* C28: a successful startScan, at whatever position the scan is, resets the
\* scan to before the first record of firstPage, unpinning any other data
\* page it had pinned, so that the next scanNext returns the first matching
\* record.
C28_StartScanResets ==
    Running
    => \A id \in Scanners, other \in InsertIds, a \in ScanCalls :
          StartScanResets(Pool, heap[id], a, StartScanOf(Pool, heap[id], a), heap[other])

\* Invariant F1 for the object h, other being the second object open on the
\* file: a non-null curPage is the frame that holds page curPageNo of the
\* file, and the page carries one pin that is not the other object's; with a
\* null curPage no data page carries a pin that is not the other object's
F1(bm, h, other) ==
    /\ h.curPage # NullPage
       => /\ Holds(bm, h.curPage, filePtr, h.curPageNo)
          /\ PinsBut(bm, other, h.curPageNo) = 1
    /\ h.curPage = NullPage
       => \A p \in DataPages(bm) : PinsBut(bm, other, p) = 0

F1After(r, other) == F1(r.bm, r.h, other)

\* C29: Invariant F1 holds after every heap file operation, error returns
\* included: a non-null curPage is the frame of (filePtr, curPageNo), pinned
\* exactly once by the instance, and an instance with a null curPage owns no
\* pin on a data page.
C29_F1 ==
    Running
    => \A id \in Scanners, other \in InsertIds :
          /\ F1(Pool, heap[id], heap[other])
          /\ F1After(ScanNextOf(Pool, heap[id]), heap[other])
          /\ F1After(EndScanOf(Pool, heap[id]), heap[other])
          /\ \A rid \in Rids : F1After(GetRecordOf(Pool, heap[id], rid), heap[other])

GetCurrentOf(bm, h) ==
    IF h.kind \in KindsV2
    THEN HeapFileScan_getRecord_v2(bm, h)
    ELSE HeapFileScan_getRecord(bm, h)

\* Invariant F2 for the object h
F2(h) == h.curRec # NULLRID => h.curRec.pageNo = h.curPageNo

\* getRecord(rid) returned g: when it succeeded, curRec is rid and
\* getRecord(rec) after it returns the record of rid
CurrentIs(g, rid) ==
    g.status = "OK"
    => /\ g.h.curRec = rid
       /\ F2(g.h)
       /\ GetCurrentOf(g.bm, g.h).status = "OK"
       /\ GetCurrentOf(g.bm, g.h).rec = PageNow(g.bm, rid.pageNo).slot[rid.slotNo]

\* C30: Invariant F2: whenever curRec is not NULLRID its page number is
\* curPageNo; after a successful getRecord(rid), on the current page or on
\* another page, curRec is rid, and getRecord(rec) then returns that record.
C30_F2 ==
    Running
    => \A id \in Scanners :
          /\ F2(heap[id])
          /\ \A rid \in LiveRids(Pool) : CurrentIs(GetRecordOf(Pool, heap[id], rid), rid)

(***************************************************************************)
(* Claims about what a scan session leaves behind                          *)
(***************************************************************************)
\* the frames of bm that hold a dirty page, with the page they hold
DirtyPages(bm) ==
    {<<i, bm.bufTable[i].file, bm.bufTable[i].pageNo>> :
        i \in {j \in Frames(bm) : bm.bufTable[j].valid /\ bm.bufTable[j].dirty}}

\* a step of a scan that only reads: no frame becomes dirty, the header page
\* (recCnt included) does not change, and the scan objects keep hdrDirtyFlag
\* and curDirtyFlag false
ReadOnlyStep ==
    /\ DirtyPages(Pool') \subseteq DirtyPages(Pool)
    /\ PageNow(Pool', File_getFirstPage) = PageNow(Pool, File_getFirstPage)
    /\ \A id \in ScanIds :
          heap'[id].kind # "none" => (~heap'[id].hdrDirtyFlag /\ ~heap'[id].curDirtyFlag)

\* C31: a scan session that only reads (construction, startScan, scanNext,
\* getRecord, markScan, resetScan, endScan, destruction) leaves hdrDirtyFlag
\* false and recCnt unchanged and unpins the header and every data page it
\* visited with dirty = false: no step of it sets a dirty bit in the pool.
\* The steps of the InsertFileScan open on the same file are left out.
C31_ReadOnlyScan ==
    [][(\A other \in InsertIds : heap'[other] = heap[other]) => ReadOnlyStep]_vars

\* a scan that has moved on from the first data page, whose frame was clean
\* when the scan unpinned it and is clean now
C31_Witness ==
    /\ Running
    /\ \E id \in Scanners :
          /\ heap[id].curPage # NullPage
          /\ heap[id].curPageNo = 3
          /\ Resident(Pool, filePtr, 2)
          /\ PinCntOf(Pool, filePtr, 2) = 0
          /\ \A i \in Frames(Pool) : Holds(Pool, i, filePtr, 2) => ~bufTable[i].dirty

(***************************************************************************)
(* Claims about insertRecord on a full page                                *)
(***************************************************************************)
\* insertRecord of rec on the InsertFileScan h finds its current page full
PageFull(bm, h, rec) ==
    /\ h.kind = "InsertFileScan"
    /\ rec.length <= MaxRecLen
    /\ h.curPage # NullPage
    /\ Page_insertRecord(bm.bufPool[h.curPage], rec).status = "NOSPACE"

\* the pages the provider holds for the file
FilePages(bm) == {n \in 1 .. MaxHeapPages : <<filePtr, n>> \in DOMAIN bm.disk}

\* the page-full path r of insertRecord succeeded: one page was added to the
\* file and holds nothing but the record; the old page points to it and is
\* otherwise as it was, has lost the pin of this object and is dirty; the new
\* page is the current page and carries one pin; the header names it as the
\* last page, counts one page and one record more, and hdrDirtyFlag is set
ChainedNewPage(bm, h, rec, r) ==
    /\ FilePages(r.bm) = FilePages(bm) \cup {r.h.curPageNo}
    /\ r.h.curPageNo \notin FilePages(bm)
    /\ r.rid.pageNo = r.h.curPageNo
    /\ r.h.curPage # NullPage
    /\ Holds(r.bm, r.h.curPage, filePtr, r.h.curPageNo)
    /\ r.bm.bufTable[r.h.curPage].pinCnt = 1
    /\ r.bm.bufPool[r.h.curPage]
          = [Page_init(r.h.curPageNo) EXCEPT !.slot[r.rid.slotNo] = rec]
    /\ PageNow(r.bm, h.curPageNo)
          = [PageNow(bm, h.curPageNo) EXCEPT !.nextPage = r.h.curPageNo]
    /\ PinsOn(r.bm, h.curPageNo) = PinsOn(bm, h.curPageNo) - 1
    /\ Resident(r.bm, filePtr, h.curPageNo) => PageFrame(r.bm, h.curPageNo).dirty
    /\ Hdr(r.bm, r.h).lastPage = r.h.curPageNo
    /\ Hdr(r.bm, r.h).pageCnt = Hdr(bm, h).pageCnt + 1
    /\ Hdr(r.bm, r.h).recCnt = Hdr(bm, h).recCnt + 1
    /\ r.h.hdrDirtyFlag

\* the page-full path r failed: lastPage and pageCnt are as they were unless
\* hdrDirtyFlag is set
HeaderKeptOrDirty(bm, h, r) ==
    \/ r.h.hdrDirtyFlag
    \/ /\ Hdr(r.bm, r.h).lastPage = Hdr(bm, h).lastPage
       /\ Hdr(r.bm, r.h).pageCnt = Hdr(bm, h).pageCnt

PageFullPath(bm, h, rec, r) ==
    PageFull(bm, h, rec)
    => IF r.status = "OK"
       THEN ChainedNewPage(bm, h, rec, r)
       ELSE HeaderKeptOrDirty(bm, h, r)

\* the page-full path on the object as the operations that returned OK left it
PageFullDirect ==
    Running
    => \A id \in InsertIds, length \in {1, MaxRecLen} :
          PageFullPath(Pool, heap[id], [data |-> 7, length |-> length],
                       insertRecord(Pool, heap[id], [data |-> 7, length |-> length]))

\* the page-full path on the object g (pool gbm) that a getRecord(rid) which
\* returned an error has left
PageFullAfter(gbm, g, length) ==
    PageFullPath(gbm, g, [data |-> 7, length |-> length],
                 insertRecord(gbm, g, [data |-> 7, length |-> length]))

PageFullAfterFailedGet ==
    Running
    => \A id \in InsertIds, rid \in Rids, length \in {1, MaxRecLen} :
          (heap[id].kind = "InsertFileScan"
              /\ getRecord(Pool, heap[id], rid).status # "OK")
          => PageFullAfter(getRecord(Pool, heap[id], rid).bm,
                           getRecord(Pool, heap[id], rid).h, length)

\* C32: when insertRecord finds the current page full it allocates and
\* initializes one new page, points the old page to it, unpins the old page
\* dirty, makes the new page the single pinned current page, sets lastPage,
\* counts the page and the record in the header, sets hdrDirtyFlag and stores
\* the record on the new page; when a step fails, lastPage and pageCnt are not
\* left changed without hdrDirtyFlag set.  Stated for the object as it is and
\* as a getRecord(rid) that returned an error leaves it.
C32_PageFullChaining == PageFullDirect /\ PageFullAfterFailedGet

(***************************************************************************)
(* Claims about matchRec                                                   *)
(***************************************************************************)
\* the integer fields matchRec is applied to: the ends of the range and the
\* values around the filters
IntFields == {IntMin, IntMin + 1, -1, 0, 1, IntMax - 1, IntMax}

\* matchRec of the scan h agrees with the comparison attr op filter on every
\* record that holds the whole field
MatchesTrueComparison(h) ==
    \A attr \in IntFields :
        matchRec(h, [data |-> attr, length |-> MaxRecLen])
            = Related(h.op, attr, h.filter.value)

\* C33: for INTEGER fields matchRec returns op applied to the sign of the
\* mathematical difference attr - filter, for every pair of values of the
\* integer width, also when the difference does not fit in that width.
C33_MatchRecInteger ==
    Running
    => \A id \in ScanIds :
          (heap[id].kind # "none" /\ ~heap[id].filter.null /\ heap[id].type = "INTEGER")
          => MatchesTrueComparison(heap[id])

\* the same over the pairs whose difference fits in the integer width
MatchRecIntegerInRange ==
    Running
    => \A id \in ScanIds :
          (heap[id].kind # "none" /\ ~heap[id].filter.null /\ heap[id].type = "INTEGER")
          => \A attr \in IntFields :
                (attr - heap[id].filter.value) \in IntMin .. IntMax
                => matchRec(heap[id], [data |-> attr, length |-> MaxRecLen])
                      = Related(heap[id].op, attr, heap[id].filter.value)

\* the STRING field of two bytes b0 b1
Str(b0, b1) == b0 * (ByteMax + 1) + b1

Strings == {Str(b0, b1) : b0 \in 0 .. ByteMax, b1 \in 0 .. ByteMax}

\* a file of three records that are STRING fields, two of them with a zero
\* first byte
StrRecs ==
    <<[data |-> Str(0, 1), length |-> MaxRecLen], [data |-> Str(0, 2), length |-> MaxRecLen],
      [data |-> Str(1, 0), length |-> MaxRecLen]>>

\* the filtered scans the client starts on it: the whole field compared with a
\* string, and the scan without a filter
StringCalls ==
    [offset : {0}, length : {MaxRecLen}, type : {"STRING"},
     filter : {Filter(Str(0, 1)), Filter(Str(1, 0)), Filter(Str(2, 1))},
     op : {"LT", "LTE", "EQ", "GTE", "GT", "NE"}]
        \cup {[offset |-> 0, length |-> 0, type |-> "STRING", filter |-> NullFilter,
               op |-> "EQ"]}

StringInit ==
    /\ Start(Populated(StrRecs))
    /\ alive = TRUE
    /\ fault = "none"
    /\ last = Call("~InsertFileScan", filePtr, -1, FALSE, "OK", {})
    /\ heap = [id \in HeapIds |-> NoHeapFile]

StringNext ==
    \/ \E id \in ScanIds, g \in Garbage : Scan_Open(id, g)
    \/ \E id \in HeapIds : Scan_Close(id)
    \/ \E id \in ScanIds, a \in StringCalls : Scan_startScan(id, a)
    \/ \E id \in ScanIds : Scan_scanNext(id)
    \/ \E id \in ScanIds : ScanV2_Open(id)
    \/ \E id \in HeapIds : ScanV2_Close(id)
    \/ \E id \in ScanIds, a \in StringCalls : ScanV2_startScan(id, a)
    \/ \E id \in ScanIds : ScanV2_scanNext(id)

StringSpec == StringInit /\ [][StringNext]_vars

\* the scan id compares a whole STRING field with its filter
StringScan(id) ==
    /\ heap[id].kind # "none"
    /\ ~heap[id].filter.null
    /\ heap[id].type = "STRING"
    /\ heap[id].length = MaxRecLen

\* bytes i .. n - 1 of the fields s1 and s2 differ somewhere
DifferFrom(s1, s2, n, i) == \E j \in i .. n - 1 : ByteAt(s1, j, n) # ByteAt(s2, j, n)

\* C34: for STRING fields matchRec compares exactly length bytes of the field
\* and the filter: two byte strings that differ within the first length bytes
\* are never reported equal (EQ is false, NE is true), also when the difference
\* lies after a zero byte.
C34_MatchRecString ==
    Running
    => \A id \in ScanIds :
          (StringScan(id) /\ heap[id].op \in {"EQ", "NE"})
          => \A s \in Strings :
                DifferFrom(s, heap[id].filter.value, MaxRecLen, 0)
                => matchRec(heap[id], [data |-> s, length |-> MaxRecLen])
                      = (heap[id].op = "NE")

\* the same, and the order for the other operators, over the fields that have
\* no zero byte before the first byte that differs from the filter
MatchRecStringNoNul ==
    Running
    => \A id \in ScanIds :
          StringScan(id)
          => \A s \in Strings :
                (\A i \in 0 .. MaxRecLen - 1 :
                    (ByteAt(s, i, MaxRecLen) = 0
                        /\ \A j \in 0 .. i : ByteAt(s, j, MaxRecLen)
                                                = ByteAt(heap[id].filter.value, j, MaxRecLen))
                    => ~DifferFrom(s, heap[id].filter.value, MaxRecLen, i))
                => matchRec(heap[id], [data |-> s, length |-> MaxRecLen])
                      = Related(heap[id].op, s, heap[id].filter.value)

(***************************************************************************)
(* Claims about the clock hand                                             *)
(***************************************************************************)
\* allocBuf returned ab with status OK and the hand stands one past its frame
HandPastFrame(ab) == ab.bm.clockHand = (ab.frame + 1) % ab.bm.numBufs

\* C35: in allocBuf the clock hand is advanced after every inspected frame,
\* the chosen one included: after allocBuf returns OK with frame f, an invalid
\* frame or an evicted victim, clockHand = (f + 1) mod numBufs.
C35_HandAfterChosenFrame ==
    Running
    => \A w \in BOOLEAN :
          allocBuf(Pool, -1, w).status = "OK" => HandPastFrame(allocBuf(Pool, -1, w))

\* the same for the invalid frames allocBuf returns
HandAfterInvalidFrame ==
    Running
    => \A w \in BOOLEAN :
          (allocBuf(Pool, -1, w).status = "OK" /\ allocBuf(Pool, -1, w).victim = NoVictim)
          => HandPastFrame(allocBuf(Pool, -1, w))

\* allocBuf leaves the hand on the frame of the victim it evicted
HandOnVictim ==
    Running
    => \A w \in BOOLEAN :
          (allocBuf(Pool, -1, w).status = "OK" /\ allocBuf(Pool, -1, w).victim # NoVictim)
          => allocBuf(Pool, -1, w).bm.clockHand = allocBuf(Pool, -1, w).frame

(***************************************************************************)
(* Claims about the end of a scan                                          *)
(***************************************************************************)
\* scanNext returned r from the pool bm with FILEEOF, no RID and no new pin
EofOnly(bm, r) ==
    /\ r.status = "FILEEOF"
    /\ r.rid = NULLRID
    /\ \A p \in 1 .. MaxHeapPages : PinsOn(r.bm, p) <= PinsOn(bm, p)

\* the scan h has nothing left: its next scanNext returns FILEEOF
Exhausted(bm, h) ==
    /\ h.kind \in {"HeapFileScan", "HeapFileScan_v2"}
    /\ h.returnStatus = "OK"
    /\ EofOnly(bm, ScanNextOf(bm, h))

\* the step leaves the scan id alone, or is its scanNext, or is its markScan:
\* not a startScan, resetScan, endScan or getRecord(rid) that moves it
KeepsPosition(id) ==
    \/ heap'[id] = heap[id]
    \/ heap'[id] = MarkScanOf(Pool, heap[id]).h
    \/ /\ heap'[id] = ScanNextOf(Pool, heap[id]).h
       /\ Pool' = ScanNextOf(Pool, heap[id]).bm

\* C36: Exhausted is absorbing: once scanNext has returned FILEEOF, every later
\* scanNext with no startScan, resetScan, endScan or getRecord(rid) in between
\* returns FILEEOF, returns no RID and pins no page.  A scan whose next scanNext
\* returns FILEEOF is still such a scan after its scanNext and after every step
\* that keeps its position.
C36_ExhaustedAbsorbing ==
    [][\A id \in ScanIds :
          (Running /\ Exhausted(Pool, heap[id]) /\ KeepsPosition(id))
          => Exhausted(Pool', heap'[id])]_vars

\* a scan of the first variant that has returned FILEEOF on a file with records
C36_Witness ==
    /\ Running
    /\ LiveRids(Pool) # {}
    /\ \E id \in Scanners :
          /\ heap[id].kind = "HeapFileScan"
          /\ heap[id].curPage = NullPage
          /\ heap[id].curPageNo = -1
          /\ Exhausted(Pool, heap[id])

\* the first variant's scan that has returned FILEEOF (curPage NULL, curPageNo
\* -1) returns FILEEOF at once, whatever has been inserted since
EofAtOnce ==
    \A id \in Scanners :
        (heap[id].kind = "HeapFileScan" /\ heap[id].curPage = NullPage
            /\ heap[id].curPageNo = -1)
        => /\ EofOnly(Pool, scanNext(Pool, heap[id]))
           /\ scanNext(Pool, heap[id]).h = heap[id]
           /\ scanNext(Pool, heap[id]).bm = Pool

(***************************************************************************)
(* QU_Delete: a scan that deletes the records it returns                   *)
(***************************************************************************)
\* the calls of startScan QU_Delete makes: without and with a filter
DeleteCalls == {a \in ScanCalls : a.offset >= 0}

DeleteInit ==
    /\ \E recs \in Populations : Start(Populated(recs))
    /\ alive = TRUE
    /\ fault = "none"
    /\ last = Call("~InsertFileScan", filePtr, -1, FALSE, "OK", {})
    /\ heap = [id \in HeapIds |-> NoHeapFile]

\* HeapFileScan scan(relation, status)
QU_Delete_scan(id) ==
    /\ Running
    /\ \A other \in HeapIds : heap[other].kind = "none"
    /\ Done(id, "HeapFileScan", HeapFileScan(Pool))

QU_Delete_scan_v2(id) ==
    /\ Running
    /\ \A other \in HeapIds : heap[other].kind = "none"
    /\ Done(id, "HeapFileScan", HeapFileScan_v2(Pool))

QU_Delete_startScan(id, a) ==
    /\ Usable(id, {"HeapFileScan", "HeapFileScan_v2"})
    /\ last.op = "HeapFileScan"
    /\ last.status = "OK"
    /\ Done(id, "startScan", StartScanOf(Pool, heap[id], a))

\* while ((loopStatus = scan.scanNext(rid)) == OK); a client that only reads
\* calls scanNext again without deleteRecord
QU_Delete_scanNext(id) ==
    /\ Usable(id, {"HeapFileScan", "HeapFileScan_v2"})
    /\ last.op \in {"startScan", "deleteRecord", "scanNext"}
    /\ last.status = "OK"
    /\ Done(id, "scanNext", ScanNextOf(Pool, heap[id]))

\* status = scan.deleteRecord()
QU_Delete_deleteRecord(id) ==
    /\ Usable(id, {"HeapFileScan", "HeapFileScan_v2"})
    /\ last.op = "scanNext"
    /\ last.status = "OK"
    /\ ~DeleteRecordOf(Pool, heap[id]).nullDeref
    /\ Done(id, "deleteRecord", DeleteRecordOf(Pool, heap[id]))

\* return: the scan goes out of scope
QU_Delete_return(id) ==
    /\ Running
    /\ heap[id].kind \in {"HeapFileScan", "HeapFileScan_v2"}
    /\ last.status # "OK"
    /\ Done(id, "~HeapFile",
            IF heap[id].kind \in KindsV2
            THEN HeapFileScanDtor_v2(Pool, heap[id])
            ELSE HeapFileScanDtor(Pool, heap[id]))

DeleteNext ==
    \/ \E id \in ScanIds : QU_Delete_scan(id)
    \/ \E id \in ScanIds : QU_Delete_scan_v2(id)
    \/ \E id \in ScanIds, a \in DeleteCalls : QU_Delete_startScan(id, a)
    \/ \E id \in ScanIds : QU_Delete_scanNext(id)
    \/ \E id \in ScanIds : QU_Delete_deleteRecord(id)
    \/ \E id \in ScanIds : QU_Delete_return(id)

DeleteSpec == DeleteInit /\ [][DeleteNext]_vars

\* the live records on the pages pages[i], pages[i + 1], ...
RECURSIVE LiveOnPages(_, _, _)
LiveOnPages(bm, pages, i) ==
    IF i > Len(pages)
    THEN 0
    ELSE Cardinality(LiveSlots(PageNow(bm, pages[i]))) + LiveOnPages(bm, pages, i + 1)

\* the slot the scan h stands on, -1 before the first record of its page
SlotOf(h) ==
    IF h.kind \in KindsV2
    THEN IF h.curRec.pageNo = h.curPageNo THEN h.curRec.slotNo ELSE -1
    ELSE IF h.curRec = NULLRID THEN -1 ELSE h.curRec.slotNo

\* the live records the scan h has not come to yet: those behind its slot on
\* its page and those on the pages that follow in the list; all of them when
\* it has no page and starts from firstPage, none when it has ended
Remaining(bm, h) ==
    IF h.curPage = NullPage
    THEN IF h.kind \notin KindsV2 /\ h.curPageNo = -1
         THEN 0
         ELSE LiveOnPages(bm, PageList(bm, Hdr(bm, h).firstPage, MaxHeapPages), 1)
    ELSE Cardinality({s \in LiveSlots(bm.bufPool[h.curPage]) : s > SlotOf(h)})
            + LiveOnPages(bm, PageList(bm, bm.bufPool[h.curPage].nextPage,
                                       MaxHeapPages), 1)

\* C37: on a heap file whose page list is finite and acyclic repeated scanNext
\* calls return OK only finitely many times before they return FILEEOF, also
\* when deleteRecord is called on each returned record as QU_Delete does: every
\* scanNext that returns OK leaves fewer live records ahead of the scan than
\* there were, every other scanNext and every deleteRecord leaves no more, and
\* with none ahead scanNext does not return OK.
C37_ScanTerminates ==
    [][\A id \in ScanIds :
          /\ (last'.op = "scanNext" /\ last'.status = "OK")
                => Remaining(Pool', heap'[id]) < Remaining(Pool, heap[id])
          /\ last'.op \in {"scanNext", "deleteRecord"}
                => Remaining(Pool', heap'[id]) <= Remaining(Pool, heap[id])]_vars

\* the scan has ended on a file that had records on several pages and has none
\* left
C37_Witness ==
    /\ last.op = "scanNext"
    /\ last.status = "FILEEOF"
    /\ LiveRids(Pool) = {}
    /\ \E id \in ScanIds : /\ heap[id].kind = "HeapFileScan"
                           /\ Hdr(Pool, heap[id]).pageCnt >= 2

(***************************************************************************)
(* The pool and the provider as one page store                             *)
(***************************************************************************)
\* the contents a pin holder leaves in a page: the page with recCnt set to c
Contents == {1}

PageWith(c) == [ZeroPage EXCEPT !.recCnt = c]

\* a pin holder of page (file, PageNo) writes the contents c into the frame it
\* has pinned and unpins the page with dirty = true
Holder_update(file, PageNo, c) ==
    /\ Running
    /\ Resident(Pool, file, PageNo)
    /\ PinCntOf(Pool, file, PageNo) > 0
    /\ LET i == CHOOSE j \in Frames(Pool) : Holds(Pool, j, file, PageNo)
           r == unPinPage([Pool EXCEPT !.bufPool[i] = PageWith(c)], file, PageNo, TRUE)
       IN /\ Install(r.bm)
          /\ last' = Call("update", file, PageNo, TRUE, r.status, {})
    /\ UNCHANGED <<alive, fault, heap>>

\* the pages the clients of the store use: more than the pool has frames
StorePages == {<<1, 1>>, <<1, 2>>, <<2, 1>>}

\* one page is updated by its pin holders and one is handed out by the provider
StoreNext ==
    \/ \E pg \in StorePages : ReadPage(pg[1], pg[2], TRUE, TRUE)
    \/ \E pg \in StorePages, d \in BOOLEAN : UnPinPage(pg[1], pg[2], d)
    \/ AllocPage(1, 2, TRUE)
    \/ \E f \in Files : FlushFile(f, {})
    \/ \E c \in Contents : Holder_update(1, 1, c)

StoreSpec == Init /\ [][StoreNext]_vars

\* the page store the clients see: a page has the contents of the frame that
\* holds it, and the provider's contents when no frame holds it
StoreOf(bm, file, PageNo) ==
    IF Resident(bm, file, PageNo)
    THEN bm.bufPool[CHOOSE j \in Frames(bm) : Holds(bm, j, file, PageNo)]
    ELSE bm.disk[<<file, PageNo>>]

\* C38: cache coherence: the contents a successful readPage exposes are the
\* contents the last pin holder that unpinned the page with dirty = true left
\* in it, or the provider's contents if it was never dirtied: the pool with
\* the provider behaves like a plain page store.  No step but the update of a
\* pin holder changes the contents of a page of the store.
C38_CacheCoherence ==
    [][\A f \in Files, p \in PageNos :
          (Running /\ fault' = "none" /\ ~(last'.op = "update" /\ last'.file = f
                                           /\ last'.pageNo = p))
          => StoreOf(Pool', f, p) = StoreOf(Pool, f, p)]_vars

\* the same for the pages that no allocPage puts into a frame
CoherentButAllocated ==
    [][\A pg \in StorePages \ {<<1, 2>>} :
          (Running /\ fault' = "none"
              /\ ~(last'.op = "update" /\ last'.file = pg[1] /\ last'.pageNo = pg[2]))
          => StoreOf(Pool', pg[1], pg[2]) = StoreOf(Pool, pg[1], pg[2])]_vars

(***************************************************************************)
(* Claims about the pins of an instance over its life                      *)
(***************************************************************************)
\* the destructor of the object h, of either variant
DestroyOf(bm, h) ==
    CASE h.kind = "HeapFileScan" -> HeapFileScanDtor(bm, h)
      [] h.kind = "InsertFileScan" -> InsertFileScanDtor(bm, h)
      [] h.kind = "HeapFileScan_v2" -> HeapFileScanDtor_v2(bm, h)
      [] h.kind = "InsertFileScan_v2" -> InsertFileScanDtor_v2(bm, h)
      [] OTHER -> Ret("OK", bm, h)

\* the pool once every object of the client has been destroyed
AllDestroyed(bm) == DestroyOf(DestroyOf(bm, heap[1]).bm, heap[2]).bm

\* an unPinPage of the instance found the page not resident or not pinned
UnpinFailed(status) == status \in {"PAGENOTPINNED", "HASHNOTFOUND"}

\* the statuses of the unPinPage calls the destructor of h issues: for the
\* current page, when it has one, and then for the header page
DtorUnpins(bm, h) ==
    IF h.curPage # NullPage
    THEN {unPinPage(bm, filePtr, h.curPageNo, h.curDirtyFlag).status,
          unPinPage(unPinPage(bm, filePtr, h.curPageNo, h.curDirtyFlag).bm, filePtr,
                    h.headerPageNo, h.hdrDirtyFlag).status}
    ELSE {unPinPage(bm, filePtr, h.headerPageNo, h.hdrDirtyFlag).status}

\* no operation of the scan h and no destructor of h has an unPinPage that fails
NoUnpinFails(bm, h) ==
    /\ \A rid \in Rids : ~UnpinFailed(GetRecordOf(bm, h, rid).status)
    /\ h.kind \in {"HeapFileScan", "HeapFileScan_v2"}
       => /\ ~UnpinFailed(ScanNextOf(bm, h).status)
          /\ ~UnpinFailed(EndScanOf(bm, h).status)
          /\ ~UnpinFailed(ResetScanOf(bm, h).status)
          /\ \A a \in ScanCalls : ~UnpinFailed(StartScanOf(bm, h, a).status)
    /\ \A st \in DtorUnpins(bm, h) : ~UnpinFailed(st)

\* C39: lifecycle pin balance: after an instance is constructed, used with any
\* sequence of its operations (those that return errors, endScan followed by
\* getRecord(rid) and scans run to FILEEOF among them) and destroyed, every
\* page of the file has the pinCnt it had before the construction, and no
\* unPinPage the instance issued returned PAGENOTPINNED or HASHNOTFOUND.  The
\* pages have no pin before the first instance is constructed.
C39_LifecyclePinBalance ==
    Running
    => /\ \A p \in 1 .. MaxHeapPages : PinsOn(AllDestroyed(Pool), p) = 0
       /\ \A id \in Handles : NoUnpinFails(Pool, heap[id])

\* the two halves, apart
PinsBalanced == Running => \A p \in 1 .. MaxHeapPages : PinsOn(AllDestroyed(Pool), p) = 0

NoUnpinFailsV2 ==
    Running
    => \A id \in Handles : heap[id].kind \in KindsV2 => NoUnpinFails(Pool, heap[id])

(***************************************************************************)
(* Claims about two InsertFileScan instances on one file                   *)
(***************************************************************************)
\* the pages reachable from firstPage through next-page pointers
ReachablePages(bm) == SeqRange(ListOf(bm))

\* C40: when two InsertFileScan instances are open on the same heap file and
\* their insertRecord calls interleave in any order, every record inserted by
\* either instance stays reachable from firstPage through next-page pointers,
\* no data page is orphaned by a page-full chaining step, and recCnt equals
\* the number of reachable records.
C40_InterleavedInserts ==
    Running
    => /\ \A rid \in LiveRids(Pool) : rid.pageNo \in ReachablePages(Pool)
       /\ DataPages(Pool) \subseteq ReachablePages(Pool)
       /\ PageNow(Pool, File_getFirstPage).recCnt
             = LiveFrom(Pool, PageNow(Pool, File_getFirstPage).firstPage, MaxHeapPages)

====
